---------------------------- MODULE Spec2Model ----------------------------
(***************************************************************************)
(* Model of the PIS add-on's report build (src/pis_pis_meter/parser.py):   *)
(* build_portal_payload sorts the invoices, may prepend a pseudo-invoice   *)
(* taken from the ledger, reconciles the invoices against the ledger rows  *)
(* and computes the finance metrics.                                       *)
(*                                                                         *)
(* Amounts are Python floats in the code.  They are modelled exactly: a    *)
(* float is a sign and a magnitude, the magnitude an unbounded natural     *)
(* number counted in units of 2^-FracBits.  Every operation rounds its     *)
(* exact result to 53 significant bits, ties to even, as IEEE-754 binary64 *)
(* does.  Amounts enter as decimal text with at most three decimals, so an *)
(* input amount is written as an integer number of thousandths.            *)
(***************************************************************************)
EXTENDS Integers, Sequences, FiniteSets

(***************************************************************************)
(* Natural numbers of any size, as sequences of limbs in base 2^LimbBits   *)
(* (least significant limb first, no leading zero limb, zero is the empty  *)
(* sequence).                                                              *)
(***************************************************************************)
LimbBits == 15

FracBits == 90

MantissaBits == 53

RECURSIVE Pow2(_)
Pow2(k) == IF k = 0 THEN 1 ELSE 2 * Pow2(k - 1)

Base == Pow2(LimbBits)

RECURSIVE BigNorm(_)
BigNorm(b) ==
    IF b = <<>> THEN <<>>
    ELSE IF b[Len(b)] # 0 THEN b
    ELSE BigNorm(SubSeq(b, 1, Len(b) - 1))

BigLimb(b, i) == IF i >= 1 /\ i <= Len(b) THEN b[i] ELSE 0

RECURSIVE BigFromNat(_)
BigFromNat(n) ==
    IF n = 0 THEN <<>> ELSE <<n % Base>> \o BigFromNat(n \div Base)

RECURSIVE BigAddFrom(_, _, _, _)
BigAddFrom(a, b, i, carry) ==
    IF i > Len(a) /\ i > Len(b)
    THEN (IF carry = 1 THEN <<1>> ELSE <<>>)
    ELSE LET s == BigLimb(a, i) + BigLimb(b, i) + carry
         IN  <<s % Base>> \o BigAddFrom(a, b, i + 1, s \div Base)

BigAdd(a, b) == BigAddFrom(a, b, 1, 0)

\* a - b for a >= b
RECURSIVE BigSubFrom(_, _, _, _)
BigSubFrom(a, b, i, borrow) ==
    IF i > Len(a) THEN <<>>
    ELSE LET d == BigLimb(a, i) - BigLimb(b, i) - borrow
         IN  <<(d + Base) % Base>>
                 \o BigSubFrom(a, b, i + 1, IF d < 0 THEN 1 ELSE 0)

BigSub(a, b) == BigNorm(BigSubFrom(a, b, 1, 0))

\* -1, 0 or 1 as a < b, a = b, a > b; i runs from the top limb down
RECURSIVE BigCmpFrom(_, _, _)
BigCmpFrom(a, b, i) ==
    IF i = 0 THEN 0
    ELSE IF a[i] < b[i] THEN -1
    ELSE IF a[i] > b[i] THEN 1
    ELSE BigCmpFrom(a, b, i - 1)

BigCmp(a, b) ==
    IF Len(a) < Len(b) THEN -1
    ELSE IF Len(a) > Len(b) THEN 1
    ELSE BigCmpFrom(a, b, Len(a))

\* b times the small number m (m <= Base)
RECURSIVE BigMulFrom(_, _, _, _)
BigMulFrom(b, m, i, carry) ==
    IF i > Len(b)
    THEN (IF carry = 0 THEN <<>> ELSE <<carry>>)
    ELSE LET p == b[i] * m + carry
         IN  <<p % Base>> \o BigMulFrom(b, m, i + 1, p \div Base)

BigMulSmall(b, m) == BigNorm(BigMulFrom(b, m, 1, 0))

\* long division of b by the small number d (d <= Base), from the top limb
\* down: <<quotient, remainder>>
PutDigit(rest, digit) == <<rest[1] \o <<digit>>, rest[2]>>

RECURSIVE BigDivFrom(_, _, _, _)
BigDivFrom(b, d, i, rem) ==
    IF i = 0 THEN <<<<>>, rem>>
    ELSE PutDigit(BigDivFrom(b, d, i - 1, (rem * Base + b[i]) % d),
                  (rem * Base + b[i]) \div d)

NormQuotient(qr) == <<BigNorm(qr[1]), qr[2]>>

BigDivSmall(b, d) == NormQuotient(BigDivFrom(b, d, Len(b), 0))

\* b * 2^k and floor(b / 2^k)
BigShiftLeft(b, k) ==
    IF b = <<>> THEN <<>>
    ELSE [i \in 1..(k \div LimbBits) |-> 0]
             \o BigMulSmall(b, Pow2(k % LimbBits))

BigShiftRight(b, k) ==
    IF k \div LimbBits >= Len(b) THEN <<>>
    ELSE BigDivSmall(SubSeq(b, (k \div LimbBits) + 1, Len(b)),
                     Pow2(k % LimbBits))[1]

\* the number of bits of a limb, and of a number
RECURSIVE LimbLen(_)
LimbLen(n) == IF n = 0 THEN 0 ELSE 1 + LimbLen(n \div 2)

BigBitLen(b) ==
    IF b = <<>> THEN 0 ELSE (Len(b) - 1) * LimbBits + LimbLen(b[Len(b)])

\* the value q + (a fraction that is nonzero iff sticky) rounded to
\* MantissaBits significant bits, ties to even: the low drop bits of q go,
\* kept is what stays, c compares what goes with one half of the last place
RoundUp(kept, drop, c, sticky) ==
    BigShiftLeft(
        IF c > 0 \/ (c = 0 /\ (sticky \/ kept[1] % 2 = 1))
        THEN BigAdd(kept, <<1>>)
        ELSE kept,
        drop)

RoundKept(q, sticky, drop, kept) ==
    RoundUp(kept, drop,
            BigCmp(BigSub(q, BigShiftLeft(kept, drop)),
                   BigShiftLeft(<<1>>, drop - 1)),
            sticky)

RoundDrop(q, sticky, drop) ==
    IF drop <= 0 THEN q ELSE RoundKept(q, sticky, drop, BigShiftRight(q, drop))

Round53(q, sticky) == RoundDrop(q, sticky, BigBitLen(q) - MantissaBits)

(***************************************************************************)
(* Python floats.                                                          *)
(***************************************************************************)
FloatZero == [neg |-> FALSE, mag |-> <<>>]

FloatRounded(neg, qr) == [neg |-> neg, mag |-> Round53(qr[1], qr[2] # 0)]

\* float("n/den" written in decimal), and also the float division n / den
\* of two exactly representable integers: the correctly rounded quotient
FloatOfRatio(n, den) ==
    FloatRounded(n < 0,
        BigDivSmall(BigShiftLeft(BigFromNat(IF n < 0 THEN -n ELSE n), FracBits),
                    den))

FloatAbs(x) == [neg |-> FALSE, mag |-> x.mag]

\* x + y for x, y of the same sign (c = 2), or of different signs with
\* c = -1, 0, 1 as |x| < |y|, |x| = |y|, |x| > |y|
FloatAddSigned(x, y, c) ==
    IF c = 0 THEN FloatZero
    ELSE FloatRounded(
             IF c = -1 THEN y.neg ELSE x.neg,
             <<IF c = 2 THEN BigAdd(x.mag, y.mag)
               ELSE IF c = 1 THEN BigSub(x.mag, y.mag)
               ELSE BigSub(y.mag, x.mag),
               0>>)

FloatAdd(x, y) ==
    FloatAddSigned(x, y, IF x.neg = y.neg THEN 2 ELSE BigCmp(x.mag, y.mag))

FloatSub(x, y) == FloatAdd(x, [neg |-> ~y.neg, mag |-> y.mag])

FloatLess(x, y) ==
    IF x.neg /\ ~y.neg THEN x.mag # <<>> \/ y.mag # <<>>
    ELSE IF ~x.neg /\ y.neg THEN FALSE
    ELSE IF x.neg THEN BigCmp(x.mag, y.mag) > 0
    ELSE BigCmp(x.mag, y.mag) < 0

FloatGreater(x, y) == FloatLess(y, x)

(***************************************************************************)
(* Values.  A value that may be None is <<>> (None) or <<v>>.  A date is   *)
(* its day number (the ISO strings of the code compare as day numbers do;  *)
(* the empty string compares below every date and is day 0).  An input     *)
(* amount m stands for the float nearest to m / 1000.                      *)
(***************************************************************************)
None == <<>>

Some(v) == <<v>>

Val(x) == x[1]

Milli == 1000

ToFloat(m) == FloatOfRatio(m, Milli)

\* row.get(k) or 0.0, for an amount in thousandths
OrZero(x) == IF x = None THEN 0 ELSE Val(x)

(***************************************************************************)
(* _enrich_invoices_with_payments                                          *)
(***************************************************************************)
EPS_AMOUNT == FloatOfRatio(1, 100)

\* the rows with a charge > 0 and the rows with a payment > 0, as indices
\* into promet_rows, in ledger order
ChargeRows(promet_rows) ==
    SelectSeq([i \in 1..Len(promet_rows) |-> i],
              LAMBDA i : OrZero(promet_rows[i].zaduzenje_value) > 0)

PaymentRows(promet_rows) ==
    SelectSeq([i \in 1..Len(promet_rows) |-> i],
              LAMBDA i : OrZero(promet_rows[i].uplata_value) > 0)

\* abs(z - amount) and abs(u - amount)
AmountDiff(row_amount, amount) ==
    FloatAbs(FloatSub(ToFloat(row_amount), ToFloat(amount)))

DaysApart(d1, d2) == IF d1 >= d2 THEN d1 - d2 ELSE d2 - d1

\* abs((parsed_date - other).days) when both dates are there, else 0
DatePenalty(parsed_date, other) ==
    IF other # None /\ parsed_date # None
    THEN DaysApart(Val(parsed_date), Val(other))
    ELSE 0

\* best is None or <<[row |-> a row index, score |-> its score]>>; a
\* candidate replaces it only with a strictly lower score
ChargeTake(idx, score, best) ==
    IF best = None \/ FloatLess(score, Val(best).score)
    THEN Some([row |-> idx, score |-> score])
    ELSE best

\* one turn of the loop over charge_rows: the row is skipped when
\* diff > EPS, else scored diff + date_penalty / 100.0
ChargeConsider(idx, diff, date_penalty, best) ==
    IF FloatGreater(diff, EPS_AMOUNT) THEN best
    ELSE ChargeTake(idx, FloatAdd(diff, FloatOfRatio(date_penalty, 100)), best)

RECURSIVE BestChargeFrom(_, _, _, _, _, _)
BestChargeFrom(promet_rows, rows, k, amount, issue_date, best) ==
    IF k > Len(rows) THEN best
    ELSE BestChargeFrom(promet_rows, rows, k + 1, amount, issue_date,
             ChargeConsider(
                 rows[k],
                 AmountDiff(Val(promet_rows[rows[k]].zaduzenje_value), amount),
                 DatePenalty(promet_rows[rows[k]].parsed_date, issue_date),
                 best))

BestCharge(promet_rows, amount, issue_date) ==
    BestChargeFrom(promet_rows, ChargeRows(promet_rows), 1, amount,
                   issue_date, None)

\* one turn of the loop over payment_rows: the score is a number of days
PaymentConsider(idx, diff, score, best) ==
    IF FloatGreater(diff, EPS_AMOUNT) THEN best
    ELSE IF best = None \/ score < Val(best).score
    THEN Some([row |-> idx, score |-> score])
    ELSE best

RECURSIVE BestPaymentFrom(_, _, _, _, _, _)
BestPaymentFrom(promet_rows, rows, k, amount, charge_date, best) ==
    IF k > Len(rows) THEN best
    ELSE BestPaymentFrom(promet_rows, rows, k + 1, amount, charge_date,
             PaymentConsider(
                 rows[k],
                 AmountDiff(Val(promet_rows[rows[k]].uplata_value), amount),
                 DatePenalty(promet_rows[rows[k]].parsed_date, charge_date),
                 best))

BestPayment(promet_rows, amount, charge_date) ==
    BestPaymentFrom(promet_rows, PaymentRows(promet_rows), 1, amount,
                    charge_date, None)

\* A variant that leaves the three fields as it finds them
UnsetNothing(inv) == inv

\* inv["paid"] = False; inv["payment_date"] = None; inv["payment_amount"] = None
Unset(inv) ==
    [inv EXCEPT !.paid = FALSE, !.payment_date = None, !.payment_amount = None]

\* A variant that leaves an invoice without a payment as it was and adds
\* the payment found to the amount the invoice already carries
SetPaymentAdding(inv, promet_rows, best_payment) ==
    IF best_payment = None THEN inv
    ELSE [inv EXCEPT
             !.paid = TRUE,
             !.payment_date = promet_rows[Val(best_payment).row].parsed_date,
             !.payment_amount =
                 Some(OrZero(inv.payment_amount)
                        + Val(promet_rows[Val(best_payment).row].uplata_value))]

\* if best_payment: paid with the date and the amount of that row
SetPayment(inv, promet_rows, best_payment) ==
    IF best_payment = None THEN Unset(inv)
    ELSE [inv EXCEPT
             !.paid = TRUE,
             !.payment_date = promet_rows[Val(best_payment).row].parsed_date,
             !.payment_amount = promet_rows[Val(best_payment).row].uplata_value]

\* A variant that looks for the payment whether or not a charge matched
MatchPaymentWithoutCharge(inv, promet_rows, best_charge) ==
    SetPayment(inv, promet_rows,
        BestPayment(promet_rows, Val(inv.amount), None))

\* if not best_charge: continue; else look for the payment
MatchPayment(inv, promet_rows, best_charge) ==
    IF best_charge = None THEN Unset(inv)
    ELSE SetPayment(inv, promet_rows,
             BestPayment(promet_rows, Val(inv.amount),
                         promet_rows[Val(best_charge).row].parsed_date))

\* A variant that leaves an invoice without an amount unpaid and matches
\* every other one, whatever the sign of its amount
EnrichInvoiceAmountGiven(inv, promet_rows) ==
    IF inv.amount = None
    THEN Unset(inv)
    ELSE MatchPayment(inv, promet_rows,
             BestCharge(promet_rows, Val(inv.amount), inv.issue_date))

\* the body of the loop over the invoices, for one invoice
EnrichInvoice(inv, promet_rows) ==
    IF inv.amount = None \/ Val(inv.amount) <= 0
    THEN [Unset(inv) EXCEPT !.paid = TRUE]
    ELSE MatchPayment(inv, promet_rows,
             BestCharge(promet_rows, Val(inv.amount), inv.issue_date))

(***************************************************************************)
(* build_portal_payload: the sort of the invoices                          *)
(***************************************************************************)
\* A variant that sorts on the issue date alone
SortKeyIssueDate(inv) ==
    IF inv.issue_date # None THEN Val(inv.issue_date) ELSE 0

\* key = inv.get("issue_date") or inv.get("due_date") or ""
SortKey(inv) ==
    IF inv.issue_date # None THEN Val(inv.issue_date)
    ELSE IF inv.due_date # None THEN Val(inv.due_date)
    ELSE 0

\* sorted(..., reverse=True) is stable: x goes after every element whose key
\* is greater than or equal to its own.  The lists hold references (indices
\* into heap) to the invoice objects.
RECURSIVE InsertDesc(_, _, _)
InsertDesc(heap, sorted, x) ==
    IF sorted = <<>> THEN <<x>>
    ELSE IF SortKey(heap[sorted[1]]) >= SortKey(heap[x])
    THEN <<sorted[1]>> \o InsertDesc(heap, Tail(sorted), x)
    ELSE <<x>> \o sorted

RECURSIVE SortDescFrom(_, _, _, _)
SortDescFrom(heap, s, k, acc) ==
    IF k > Len(s) THEN acc
    ELSE SortDescFrom(heap, s, k + 1, InsertDesc(heap, acc, s[k]))

SortDesc(heap, s) == SortDescFrom(heap, s, 1, <<>>)

(***************************************************************************)
(* _maybe_prepend_latest_charge                                            *)
(***************************************************************************)
\* the loop over promet_rows: the first row of the latest date among the
\* dated rows with a charge > 0, as None or <<row index>>
RECURSIVE LatestChargeFrom(_, _, _)
LatestChargeFrom(promet_rows, k, latest) ==
    IF k > Len(promet_rows) THEN latest
    ELSE LatestChargeFrom(promet_rows, k + 1,
             IF /\ OrZero(promet_rows[k].zaduzenje_value) > 0
                /\ promet_rows[k].parsed_date # None
                /\ \/ latest = None
                   \/ Val(promet_rows[k].parsed_date)
                          > Val(promet_rows[Val(latest)].parsed_date)
             THEN Some(k)
             ELSE latest)

LatestCharge(promet_rows) == LatestChargeFrom(promet_rows, 1, None)

SyntheticInvoice(row) ==
    [number         |-> row.Opis,
     issue_date     |-> row.parsed_date,
     due_date       |-> None,
     amount         |-> row.zaduzenje_value,
     paid           |-> FALSE,
     payment_date   |-> None,
     payment_amount |-> None,
     synthetic      |-> TRUE]

\* latest: None or <<row index>>; newest_invoice_date: None or <<date>>
PrependDecision(promet_rows, latest, newest_invoice_date) ==
    IF latest = None THEN None
    ELSE IF /\ newest_invoice_date # None
            /\ Val(promet_rows[Val(latest)].parsed_date)
                   <= Val(newest_invoice_date)
    THEN None
    ELSE Some(SyntheticInvoice(promet_rows[Val(latest)]))

\* None when the invoice list is returned as it is, <<the pseudo-invoice>>
\* when one is put in front of it; first is None (no invoice) or <<the
\* first invoice of the sorted list>>
MaybePrependLatestCharge(promet_rows, first) ==
    PrependDecision(promet_rows, LatestCharge(promet_rows),
                    IF first = None THEN None ELSE Val(first).issue_date)

(***************************************************************************)
(* _compute_finance_metrics                                                *)
(***************************************************************************)
EPS_BALANCE == FloatOfRatio(5, Milli)

DetailCap == 5

Balance(summary) ==
    FloatSub(FloatAdd(ToFloat(OrZero(summary.dug_prev)),
                      ToFloat(OrZero(summary.ukupno_zaduzenje))),
             ToFloat(OrZero(summary.ukupna_uplata)))

\* if abs(balance) < EPS: balance = 0.0
Snapped(balance) == FloatLess(FloatAbs(balance), EPS_BALANCE)

ReportedBalance(balance) == IF Snapped(balance) THEN FloatZero ELSE balance

\* A variant whose settled status is decided on an exact zero
StatusExactZero(balance) ==
    IF balance = FloatZero THEN "podmireno"
    ELSE IF FloatGreater(balance, FloatZero) THEN "dug"
    ELSE "preplata"

Status(balance) ==
    IF Snapped(balance) THEN "podmireno"
    ELSE IF FloatGreater(balance, FloatZero) THEN "dug"
    ELSE "preplata"

\* not inv.get("paid") and (inv.get("amount") or 0.0) > 0
IsUnpaid(inv) == ~inv.paid /\ OrZero(inv.amount) > 0

\* sum(...) over the amounts of the invoices ids of heap, in list order
RECURSIVE SumAmounts(_, _, _, _)
SumAmounts(heap, ids, k, acc) ==
    IF k > Len(ids) THEN acc
    ELSE SumAmounts(heap, ids, k + 1,
                    FloatAdd(acc, ToFloat(OrZero(heap[ids[k]].amount))))

\* A variant without the cap
Uncapped(s, n) == s

FirstN(s, n) == SubSeq(s, 1, IF Len(s) < n THEN Len(s) ELSE n)

\* A variant that keeps only the invoices the detail list can hold
UnpaidInvoicesCapped(heap, invoices) ==
    FirstN(SelectSeq(invoices, LAMBDA id : IsUnpaid(heap[id])), DetailCap)

UnpaidInvoices(heap, invoices) ==
    SelectSeq(invoices, LAMBDA id : IsUnpaid(heap[id]))

\* Dates are day ordinals: day 1 is 1 January of EpochYear
EpochYear == 2025

IsLeap(y) == (y % 4 = 0 /\ y % 100 # 0) \/ y % 400 = 0

DaysInYear(y) == IF IsLeap(y) THEN 366 ELSE 365

RECURSIVE YearFrom(_, _)
YearFrom(y, d) ==
    IF d <= DaysInYear(y) THEN y ELSE YearFrom(y + 1, d - DaysInYear(y))

\* date.year
YearOf(d) == YearFrom(EpochYear, d)

\* A variant that counts every dated row
InAnyYear(row, current_year) == row.parsed_date # None

\* The rows the loop does not skip
InYear(row, current_year) ==
    /\ row.parsed_date # None
    /\ YearOf(Val(row.parsed_date)) = current_year

\* year_charges += ... or 0.0 (column "zaduzenje_value"), year_payments
\* likewise (column "uplata_value"), in the order of the rows
RECURSIVE YearTotal(_, _, _, _, _)
YearTotal(rows, column, current_year, k, acc) ==
    IF k > Len(rows) THEN acc
    ELSE YearTotal(rows, column, current_year, k + 1,
                   IF InYear(rows[k], current_year)
                   THEN FloatAdd(acc, ToFloat(OrZero(rows[k][column])))
                   ELSE acc)

FinanceReport(heap, summary, invoices, balance, unpaid, rows, current_year) ==
    [balance         |-> ReportedBalance(balance),
     status          |-> Status(balance),
     previous_debt   |-> OrZero(summary.dug_prev),
     charges_total   |-> OrZero(summary.ukupno_zaduzenje),
     payments_total  |-> OrZero(summary.ukupna_uplata),
     latest_invoice  |-> IF invoices = <<>> THEN None ELSE Some(invoices[1]),
     unpaid_count    |-> Len(unpaid),
     unpaid_total    |-> SumAmounts(heap, unpaid, 1, FloatZero),
     unpaid_invoices |-> FirstN(unpaid, DetailCap),
     year            |-> current_year,
     year_charges    |-> YearTotal(rows, "zaduzenje_value", current_year, 1,
                                   FloatZero),
     year_payments   |-> YearTotal(rows, "uplata_value", current_year, 1,
                                   FloatZero)]

\* invoices: the sorted list, as references into heap.  The three totals
\* are reported as they were read (in thousandths).
ComputeFinanceMetrics(heap, summary, invoices, promet_rows, today) ==
    FinanceReport(heap, summary, invoices, Balance(summary),
                  UnpaidInvoices(heap, invoices), promet_rows, YearOf(today))

(***************************************************************************)
(* _compute_consumption.  A reading is a date (None or a day number) and   *)
(* a meter value (None or a whole number); readings[1] is the newest.      *)
(***************************************************************************)
\* round(x, ndigits) with scale = 10^ndigits: x * scale is rounded to the
\* nearest whole number q (c compares what is cut off with one half, ties
\* to even), and the result is the float nearest to q / scale
RoundDecimalsUp(q, c) ==
    IF c > 0 \/ (c = 0 /\ BigLimb(q, 1) % 2 = 1) THEN BigAdd(q, <<1>>) ELSE q

RoundDecimalsKept(m, q) ==
    RoundDecimalsUp(q, BigCmp(BigSub(m, BigShiftLeft(q, FracBits)),
                              BigShiftLeft(<<1>>, FracBits - 1)))

RoundDecimals(x, scale) ==
    FloatRounded(x.neg,
        BigDivSmall(
            BigShiftLeft(
                RoundDecimalsKept(BigMulSmall(x.mag, scale),
                                  BigShiftRight(BigMulSmall(x.mag, scale),
                                                FracBits)),
                FracBits),
            scale))

\* usage * PRICE_PER_KWH, for a whole usage of either sign
PRICE_PER_KWH == FloatOfRatio(55, 100)

FloatTimesNat(x, n) ==
    FloatRounded(x.neg # (n < 0),
                 <<BigMulSmall(x.mag, IF n < 0 THEN -n ELSE n), 0>>)

ReadingAt(readings, k) == IF Len(readings) >= k THEN Some(readings[k]) ELSE None

FieldOf(reading, field) == IF reading = None THEN None ELSE Val(reading)[field]

\* both values and both dates are there
BothRead(current, previous) ==
    /\ FieldOf(current, "value") # None
    /\ FieldOf(previous, "value") # None
    /\ FieldOf(current, "date") # None
    /\ FieldOf(previous, "date") # None

\* A variant that reports the difference whatever its sign and always
\* keeps the days between the two readings
LastPeriodUnguarded(current_value, previous_value, days) ==
    [usage |-> Some(current_value - previous_value), days_between |-> Some(days)]

\* usage = current_value - previous_value; if usage < 0: usage = None;
\* else: days_between = (current_date - previous_date).days
LastPeriod(current_value, previous_value, days) ==
    IF current_value - previous_value < 0
    THEN [usage |-> None, days_between |-> None]
    ELSE [usage |-> Some(current_value - previous_value),
          days_between |-> Some(days)]

\* A variant that reports the quotient as it comes
AvgDailyUnrounded(usage, days_between) ==
    IF days_between > 0 THEN Some(FloatOfRatio(usage, days_between))
    ELSE IF days_between = 0 THEN Some(FloatZero)
    ELSE None

\* avg_daily = usage / days_between, or 0.0, and round(avg_daily, 3)
AvgDaily(usage, days_between) ==
    IF days_between > 0
    THEN Some(RoundDecimals(FloatOfRatio(usage, days_between), 1000))
    ELSE IF days_between = 0 THEN Some(FloatZero)
    ELSE None

ApproxCost(usage) == RoundDecimals(FloatTimesNat(PRICE_PER_KWH, usage), 100)

\* the readings with a date and a value, in the order given
DatedReadings(readings) ==
    SelectSeq(readings, LAMBDA r : r.date # None /\ r.value # None)

\* dated_readings.sort(key=lambda x: x[0]): ascending by date, readings of
\* the same date stay in the order they had
RECURSIVE InsertAsc(_, _)
InsertAsc(sorted, r) ==
    IF sorted = <<>> THEN <<r>>
    ELSE IF Val(sorted[Len(sorted)].date) <= Val(r.date) THEN Append(sorted, r)
    ELSE Append(InsertAsc(SubSeq(sorted, 1, Len(sorted) - 1), r),
                sorted[Len(sorted)])

RECURSIVE SortAscFrom(_, _, _)
SortAscFrom(list, k, sorted) ==
    IF k > Len(list) THEN sorted
    ELSE SortAscFrom(list, k + 1, InsertAsc(sorted, list[k]))

SortAsc(list) == SortAscFrom(list, 1, <<>>)

\* the readings of the year of the last (newest) one
YearReadings(sorted) ==
    SelectSeq(sorted,
              LAMBDA r : YearOf(Val(r.date))
                           = YearOf(Val(sorted[Len(sorted)].date)))

\* A variant that adds every difference
DeltaSigned(diff) == diff

\* if diff > 0: total += diff
Delta(diff) == IF diff > 0 THEN diff ELSE 0

RECURSIVE YearTotalFrom(_, _, _)
YearTotalFrom(year_readings, k, total) ==
    IF k > Len(year_readings) THEN total
    ELSE YearTotalFrom(year_readings, k + 1,
             total + Delta(Val(year_readings[k].value)
                             - Val(year_readings[k - 1].value)))

YearUsageOf(year_readings) ==
    IF Len(year_readings) >= 2
    THEN [year_usage        |-> Some(YearTotalFrom(year_readings, 2, 0)),
          year_period_start |-> year_readings[1].date,
          year_period_end   |-> year_readings[Len(year_readings)].date]
    ELSE [year_usage |-> None, year_period_start |-> None,
          year_period_end |-> None]

YearUsage(readings) ==
    IF DatedReadings(readings) = <<>> THEN YearUsageOf(<<>>)
    ELSE YearUsageOf(YearReadings(SortAsc(DatedReadings(readings))))

ConsumptionReport(current, previous, period, year, today) ==
    [last_reading             |-> current,
     previous_reading         |-> previous,
     usage                    |-> period.usage,
     days_between_readings    |-> period.days_between,
     avg_daily_usage          |->
         IF period.usage = None THEN None
         ELSE AvgDaily(Val(period.usage), Val(period.days_between)),
     days_since_last_reading  |->
         IF FieldOf(current, "date") = None THEN None
         ELSE Some(today - Val(FieldOf(current, "date"))),
     approx_last_period_cost  |->
         IF period.usage = None THEN None
         ELSE Some(ApproxCost(Val(period.usage))),
     year_usage               |-> year.year_usage,
     year_period_start        |-> year.year_period_start,
     year_period_end          |-> year.year_period_end]

ComputeConsumptionOf(current, previous, readings, today) ==
    ConsumptionReport(current, previous,
        IF BothRead(current, previous)
        THEN LastPeriod(Val(FieldOf(current, "value")),
                        Val(FieldOf(previous, "value")),
                        Val(FieldOf(current, "date"))
                          - Val(FieldOf(previous, "date")))
        ELSE [usage |-> None, days_between |-> None],
        YearUsage(readings), today)

ComputeConsumption(readings, today) ==
    ComputeConsumptionOf(ReadingAt(readings, 1), ReadingAt(readings, 2),
                         readings, today)

(***************************************************************************)
(* _compute_consumption_metrics, which build_portal_payload of             *)
(* src/pis_pis_meter/parser.py calls: the difference of the two newest     *)
(* readings is reported whatever its sign, nothing is rounded and there is *)
(* no usage of the year.                                                   *)
(***************************************************************************)
\* avg_daily_last_period: the quotient as it comes, 0 for readings of the
\* same day, None for a previous reading dated after the current one
MetricsAverage(usage, days_between) ==
    IF days_between > 0 THEN Some(FloatOfRatio(usage, days_between))
    ELSE IF days_between = 0 THEN Some(FloatZero)
    ELSE None

\* A variant that counts the days from day 0 when there is no reading
DaysSinceOrZero(current, today) ==
    IF FieldOf(current, "date") = None THEN Some(0)
    ELSE Some(today - Val(FieldOf(current, "date")))

\* days_since_last_reading = (today - current_date).days
DaysSince(current, today) ==
    IF FieldOf(current, "date") = None THEN None
    ELSE Some(today - Val(FieldOf(current, "date")))

MetricsOf(current, previous, usage, days_between, today) ==
    [last_reading                   |-> current,
     previous_reading               |-> previous,
     last_period_usage              |-> usage,
     days_between_last_two_readings |-> days_between,
     avg_daily_usage_last_period    |->
         IF usage = None THEN None
         ELSE MetricsAverage(Val(usage), Val(days_between)),
     days_since_last_reading        |-> DaysSince(current, today),
     approx_last_period_cost        |->
         IF usage = None THEN None
         ELSE Some(FloatTimesNat(PRICE_PER_KWH, Val(usage)))]

MetricsReport(current, previous, today) ==
    IF BothRead(current, previous)
    THEN MetricsOf(current, previous,
                   Some(Val(FieldOf(current, "value"))
                          - Val(FieldOf(previous, "value"))),
                   Some(Val(FieldOf(current, "date"))
                          - Val(FieldOf(previous, "date"))),
                   today)
    ELSE MetricsOf(current, previous, None, None, today)

ComputeConsumptionMetrics(readings, today) ==
    MetricsReport(ReadingAt(readings, 1), ReadingAt(readings, 2), today)

(***************************************************************************)
(* The primitive parsers.  A text is a sequence of characters; a character *)
(* is a one-letter string, and a character outside ASCII is written by a   *)
(* name ("euro" is the euro sign, "c-caron" the c with caron of sijecnja   *)
(* and veljace, "z-caron" the z with caron of ozujka).  The argument of a  *)
(* parser is None or <<text>>.  The whitespace of the model is the blank.  *)
(***************************************************************************)
DigitChars == <<"0", "1", "2", "3", "4", "5", "6", "7", "8", "9">>

LowerLetters ==
    <<"a", "b", "c", "d", "e", "f", "g", "h", "i", "j", "k", "l", "m", "n",
      "o", "p", "q", "r", "s", "t", "u", "v", "w", "x", "y", "z",
      "c-caron", "c-acute", "s-caron", "d-stroke", "z-caron">>

UpperLetters ==
    <<"A", "B", "C", "D", "E", "F", "G", "H", "I", "J", "K", "L", "M", "N",
      "O", "P", "Q", "R", "S", "T", "U", "V", "W", "X", "Y", "Z",
      "C-caron", "C-acute", "S-caron", "D-stroke", "Z-caron">>

IsDigit(c) == \E n \in 1..10 : DigitChars[n] = c

IsUpper(c) == \E n \in 1..Len(UpperLetters) : UpperLetters[n] = c

IsLetter(c) == IsUpper(c) \/ \E n \in 1..Len(LowerLetters) : LowerLetters[n] = c

\* str.lower()
Lower(c) ==
    IF IsUpper(c)
    THEN LowerLetters[CHOOSE n \in 1..Len(UpperLetters) : UpperLetters[n] = c]
    ELSE c

LowerAll(t) == [k \in 1..Len(t) |-> Lower(t[k])]

DigitValue(c) == (CHOOSE n \in 1..10 : DigitChars[n] = c) - 1

\* int(digits)
RECURSIVE NatOf(_)
NatOf(digits) ==
    IF digits = <<>> THEN 0
    ELSE 10 * NatOf(SubSeq(digits, 1, Len(digits) - 1))
           + DigitValue(digits[Len(digits)])

AllDigits(t) == \A k \in 1..Len(t) : IsDigit(t[k])

InClass(c, class) ==
    IF class = "digit" THEN IsDigit(c)
    ELSE IF class = "letter" THEN IsLetter(c)
    ELSE c = " "

\* the number of characters of the class from position k on
RECURSIVE Run(_, _, _)
Run(t, k, class) ==
    IF k <= Len(t) /\ InClass(t[k], class) THEN 1 + Run(t, k + 1, class) ELSE 0

RECURSIVE RStrip(_)
RStrip(t) ==
    IF t # <<>> /\ t[Len(t)] = " " THEN RStrip(SubSeq(t, 1, Len(t) - 1))
    ELSE t

\* str.strip()
Strip(t) == RStrip(SubSeq(t, Run(t, 1, "space") + 1, Len(t)))

\* str.replace(c, "")
Without(t, c) == SelectSeq(t, LAMBDA x : x # c)

\* What a parser returns: None, a date, a float, or the ValueError it let
\* escape
Result(kind, year, month, day, value) ==
    [kind |-> kind, year |-> year, month |-> month, day |-> day,
     value |-> value]

ReturnsNone == Result("None", 0, 0, 0, FloatZero)

Raises == Result("ValueError", 0, 0, 0, FloatZero)

DaysInMonth(year, month) ==
    IF month = 2 THEN (IF IsLeap(year) THEN 29 ELSE 28)
    ELSE IF month \in {4, 6, 9, 11} THEN 30
    ELSE 31

\* A variant that moves a day past the end of the month to its last day
DateClamped(year, month, day) ==
    IF year >= 1 /\ year <= 9999 /\ month >= 1 /\ month <= 12 /\ day >= 1
    THEN Result("date", year, month,
                  IF day > DaysInMonth(year, month)
                  THEN DaysInMonth(year, month) ELSE day,
                  FloatZero)
    ELSE Raises

\* date(year, month, day): the date, or ValueError
Date(year, month, day) ==
    IF /\ year >= 1 /\ year <= 9999
       /\ month >= 1 /\ month <= 12
       /\ day >= 1 /\ day <= DaysInMonth(year, month)
    THEN Result("date", year, month, day, FloatZero)
    ELSE Raises

\* try: ... except ValueError: the alternative
Except(tried, alternative) ==
    IF tried.kind = "ValueError" THEN alternative ELSE tried

HR_MONTHS ==
    {<<<<"s", "i", "j", "e", "c-caron", "n", "j", "a">>, 1>>,
     <<<<"v", "e", "l", "j", "a", "c-caron", "e">>, 2>>,
     <<<<"o", "z-caron", "u", "j", "k", "a">>, 3>>,
     <<<<"o", "z", "u", "j", "k", "a">>, 3>>,
     <<<<"t", "r", "a", "v", "n", "j", "a">>, 4>>,
     <<<<"s", "v", "i", "b", "n", "j", "a">>, 5>>,
     <<<<"l", "i", "p", "n", "j", "a">>, 6>>,
     <<<<"s", "r", "p", "n", "j", "a">>, 7>>,
     <<<<"k", "o", "l", "o", "v", "o", "z", "a">>, 8>>,
     <<<<"r", "u", "j", "n", "a">>, 9>>,
     <<<<"l", "i", "s", "t", "o", "p", "a", "d", "a">>, 10>>,
     <<<<"s", "t", "u", "d", "e", "n", "o", "g">>, 11>>,
     <<<<"p", "r", "o", "s", "i", "n", "c", "a">>, 12>>}

\* HR_MONTHS.get(month_name): None or <<month>>
MonthGet(month_name) ==
    IF \E entry \in HR_MONTHS : entry[1] = month_name
    THEN Some((CHOOSE entry \in HR_MONTHS : entry[1] = month_name)[2])
    ELSE None

\* The groups of (\d{1,2})\.\s+([letters]+)\s+(\d{4})\.? matched at the
\* start of t with the day n characters long, w blanks before the month
\* name of l letters and v blanks after it; None when there is no match
LongGroups(t, n, w, l, v) ==
    IF /\ n \in {1, 2}
       /\ Len(t) > n
       /\ t[n + 1] = "."
       /\ w >= 1
       /\ l >= 1
       /\ v >= 1
       /\ Run(t, n + 1 + w + l + v + 1, "digit") >= 4
    THEN Some([day   |-> SubSeq(t, 1, n),
               month |-> SubSeq(t, n + 2 + w, n + 1 + w + l),
               year  |-> SubSeq(t, n + 2 + w + l + v, n + 5 + w + l + v)])
    ELSE None

LongMatchFrom(t, n, w) ==
    LongGroups(t, n, w, Run(t, n + 2 + w, "letter"),
               Run(t, n + 2 + w + Run(t, n + 2 + w, "letter"), "space"))

LongMatch(t) ==
    LongMatchFrom(t, Run(t, 1, "digit"), Run(t, Run(t, 1, "digit") + 2, "space"))

\* month = HR_MONTHS.get(month_name); if not month: return None;
\* try: return date(year, month, day); except ValueError: return None
LongDateMatched(match) ==
    IF match = None THEN ReturnsNone
    ELSE IF MonthGet(LowerAll(Val(match).month)) = None THEN ReturnsNone
    ELSE Except(Date(NatOf(Val(match).year),
                     Val(MonthGet(LowerAll(Val(match).month))),
                     NatOf(Val(match).day)),
                ReturnsNone)

\* _parse_hr_long_date
ParseHrLongDate(text) ==
    IF text = None \/ Val(text) = <<>> THEN ReturnsNone
    ELSE LongDateMatched(LongMatch(Strip(Val(text))))

\* the fields of t that its dots separate
RECURSIVE SplitDots(_, _, _)
SplitDots(t, k, field) ==
    IF k > Len(t) THEN <<field>>
    ELSE IF t[k] = "." THEN <<field>> \o SplitDots(t, k + 1, <<>>)
    ELSE SplitDots(t, k + 1, Append(field, t[k]))

\* %d and %m: one or two digits, a number from 1 to the highest
NumberField(field, highest) ==
    /\ Len(field) \in {1, 2}
    /\ AllDigits(field)
    /\ NatOf(field) >= 1
    /\ NatOf(field) <= highest

\* %y: 69..99 are 1969..1999, 0..68 are 2000..2068
Century(yy) == IF yy <= 68 THEN 2000 + yy ELSE 1900 + yy

\* datetime.strptime(t, "%d.%m.%Y").date() for year_digits = 4 and
\* (t, "%d.%m.%y") for year_digits = 2, on the fields of t: the date, or
\* ValueError
StrptimeFields(fields, year_digits) ==
    IF /\ Len(fields) = 3
       /\ NumberField(fields[1], 31)
       /\ NumberField(fields[2], 12)
       /\ Len(fields[3]) = year_digits
       /\ AllDigits(fields[3])
    THEN Date(IF year_digits = 4 THEN NatOf(fields[3])
              ELSE Century(NatOf(fields[3])),
              NatOf(fields[2]), NatOf(fields[1]))
    ELSE Raises

Strptime(t, year_digits) == StrptimeFields(SplitDots(t, 1, <<>>), year_digits)

\* _parse_hr_short_date: the two formats are tried in turn
ShortDateOf(cleaned) ==
    Except(Strptime(cleaned, 4), Except(Strptime(cleaned, 2), ReturnsNone))

ParseHrShortDate(text) ==
    IF text = None \/ Val(text) = <<>> THEN ReturnsNone
    ELSE ShortDateOf(Without(Strip(Val(text)), " "))

\* str.replace("EUR", "")
RECURSIVE WithoutEUR(_)
WithoutEUR(t) ==
    IF Len(t) < 3 THEN t
    ELSE IF SubSeq(t, 1, 3) = <<"E", "U", "R">>
    THEN WithoutEUR(SubSeq(t, 4, Len(t)))
    ELSE <<t[1]>> \o WithoutEUR(Tail(t))

CommaToDot(t) == [k \in 1..Len(t) |-> IF t[k] = "," THEN "." ELSE t[k]]

Cleaned(t) ==
    CommaToDot(Without(Without(Strip(WithoutEUR(Without(t, "euro"))), " "),
                       "."))

RECURSIVE Pow10(_)
Pow10(k) == IF k = 0 THEN 1 ELSE 10 * Pow10(k - 1)

Unsigned(t) == IF t # <<>> /\ t[1] \in {"+", "-"} THEN Tail(t) ELSE t

Negative(t) == t # <<>> /\ t[1] = "-"

\* the position of the first e or E, or 0
ExponentAt(t) ==
    IF \E k \in 1..Len(t) : Lower(t[k]) = "e"
    THEN CHOOSE k \in 1..Len(t) :
             Lower(t[k]) = "e" /\ \A j \in 1..(k - 1) : Lower(t[j]) # "e"
    ELSE 0

\* digits with at most one point among them
IsMantissa(t) ==
    /\ Len(SelectSeq(t, LAMBDA c : c = ".")) <= 1
    /\ AllDigits(Without(t, "."))
    /\ Without(t, ".") # <<>>

FractionDigits(t) ==
    IF \E k \in 1..Len(t) : t[k] = "."
    THEN Len(t) - (CHOOSE k \in 1..Len(t) : t[k] = ".")
    ELSE 0

IsExponent(t) == Unsigned(t) # <<>> /\ AllDigits(Unsigned(t))

ExponentOf(t) ==
    IF Negative(t) THEN 0 - NatOf(Unsigned(t)) ELSE NatOf(Unsigned(t))

\* the float nearest to digits * 10^power
FloatOfDecimal(negative, digits, power) ==
    Result("float", 0, 0, 0,
        [neg |-> negative,
         mag |-> IF power >= 0
                 THEN FloatOfRatio(digits * Pow10(power), 1).mag
                 ELSE FloatOfRatio(digits, Pow10(0 - power)).mag])

FloatOfNumber(negative, mantissa, power) ==
    IF IsMantissa(mantissa)
    THEN FloatOfDecimal(negative, NatOf(Without(mantissa, ".")),
                        power - FractionDigits(mantissa))
    ELSE Raises

FloatOfBody(negative, body, e) ==
    IF LowerAll(body) = <<"n", "a", "n">>
    THEN Result("nan", 0, 0, 0, FloatZero)
    ELSE IF LowerAll(body) \in {<<"i", "n", "f">>,
                                <<"i", "n", "f", "i", "n", "i", "t", "y">>}
    THEN Result("inf", 0, 0, 0, [neg |-> negative, mag |-> <<>>])
    ELSE IF e = 0 THEN FloatOfNumber(negative, body, 0)
    ELSE IF IsExponent(SubSeq(body, e + 1, Len(body)))
    THEN FloatOfNumber(negative, SubSeq(body, 1, e - 1),
                       ExponentOf(SubSeq(body, e + 1, Len(body))))
    ELSE Raises

\* float(t), for a text without blanks and underscores: a decimal number
\* with an optional sign, point and exponent, or inf, infinity or nan in
\* any case; ValueError otherwise
FloatOf(t) == FloatOfBody(Negative(t), Unsigned(t), ExponentAt(Unsigned(t)))

\* _parse_euro_amount
ParseEuroAmount(text) ==
    IF text = None \/ Val(text) = <<>> THEN ReturnsNone
    ELSE Except(FloatOf(Cleaned(Val(text))), ReturnsNone)

(***************************************************************************)
(* The report build as a state machine.  heap holds the invoice objects    *)
(* (Python dicts, shared by every list that refers to them); the lists     *)
(* hold indices into heap.                                                 *)
(***************************************************************************)
VARIABLES
    pc,               \* the position in build_portal_payload
    heap,             \* the invoice objects
    invoices,         \* the invoices argument (references)
    promet_rows,      \* the ledger rows argument
    summary,          \* the summary totals argument
    invoices_sorted,  \* the local list of build_portal_payload (references)
    finance,          \* None, or <<the finance report>>
    today,            \* what date.today() returns during the build
    readings,         \* the readings argument
    consumption,      \* None, or <<the consumption report>>
    previous,         \* None, or <<what an earlier build returned>>
    text,             \* the argument of a primitive parser
    ppc,              \* "idle", "call", or the parser that has returned
    result,           \* what the parser returned
    _cache_data,      \* None, or <<the cached report>>
    _cache_timestamp, \* the time of the cached report, in seconds
    clock,            \* what time.time() returns
    requests,         \* the HTTP requests: position and locals of each
    built             \* the number of builds that have succeeded

report_vars ==
    <<pc, heap, invoices, promet_rows, summary, invoices_sorted, finance,
      today, readings, consumption>>

parser_vars == <<text, ppc, result>>

cache_vars == <<_cache_data, _cache_timestamp, clock, requests, built>>

vars == <<report_vars, previous, parser_vars, cache_vars>>

Reading(d, v) == [date |-> d, value |-> v]

Row(d, z, u) ==
    [parsed_date |-> d, zaduzenje_value |-> z, uplata_value |-> u,
     Opis |-> "RN"]

Invoice(issue, due, amount) ==
    [number         |-> "racun",
     issue_date     |-> issue,
     due_date       |-> due,
     amount         |-> amount,
     paid           |-> FALSE,
     payment_date   |-> None,
     payment_amount |-> None,
     synthetic      |-> FALSE]

Summary(prev, charges, payments) ==
    [dug_prev |-> prev, ukupno_zaduzenje |-> charges,
     ukupna_uplata |-> payments]

SeqsUpTo(S, n) == UNION {[1..k -> S] : k \in 0..n}

\* Bounds of the inputs
MaxRows == 3

MaxReadings == 3

\* The day of the build, unless an input family varies it
Today == 20

MaxInvoices == 2

LongExtra == 1

\* One invoice against every short ledger over these rows: charges equal
\* to the invoice amount and one cent off it, payments before and after
\* the charges, rows without a date
MatchRows ==
    {Row(Some(9), Some(131940), None),   Row(None, Some(131940), None),
     Row(Some(10), Some(131950), None),  Row(Some(10), Some(100010), Some(100010)),
     Row(Some(12), Some(100000), None),
     Row(Some(8), None, Some(131940)),   Row(Some(12), None, Some(131950))}

MatchInvoices ==
    {Invoice(None, None, None), Invoice(Some(10), None, Some(0)),
     Invoice(Some(10), None, Some(-1000))}
    \cup {Invoice(d, None, Some(a)) :
              d \in {None, Some(10)}, a \in {131940, 100000}}

MatchInputs ==
    {[invoices |-> <<inv>>, promet_rows |-> rows,
      summary |-> Summary(None, None, None), today |-> Today,
      readings |-> <<>>] :
         inv \in MatchInvoices, rows \in SeqsUpTo(MatchRows, MaxRows)}

\* Several invoices, with and without dates, against a few ledgers
ListInvoices ==
    {Invoice(i, d, a) :
         i \in {None, Some(10), Some(12)}, d \in {None, Some(11)},
         a \in {Some(131940), Some(50000)}}

ListLedgers ==
    {<<>>,
     <<Row(None, Some(131940), None), Row(Some(13), None, Some(131940))>>,
     <<Row(Some(11), Some(131940), Some(131940))>>,
     <<Row(Some(14), Some(70000), None)>>,
     <<Row(Some(10), Some(70000), None)>>}

ListInputs ==
    {[invoices |-> invs, promet_rows |-> rows,
      summary |-> Summary(None, None, None), today |-> Today,
      readings |-> <<>>] :
         invs \in SeqsUpTo(ListInvoices, MaxInvoices), rows \in ListLedgers}

\* More unpaid invoices than the detail list holds
LongInvoices ==
    {Invoice(Some(10), None, Some(50000)), Invoice(None, Some(11), Some(50000)),
     Invoice(None, None, Some(50000))}

LongInputs ==
    {[invoices |-> invs, promet_rows |-> <<>>,
      summary |-> Summary(None, None, None), today |-> Today,
      readings |-> <<>>] :
         invs \in UNION {[1..k -> LongInvoices] :
                             k \in (DetailCap + 1)..(DetailCap + LongExtra)}}

\* The summary totals alone
SummaryAmounts ==
    {None, Some(0), Some(10000), Some(10004), Some(9995), Some(20000),
     Some(131940), Some(131935), Some(151940), Some(-5000)}

SummaryInputs ==
    {[invoices |-> <<>>, promet_rows |-> <<>>, summary |-> Summary(p, c, u),
      today |-> Today,
      readings |-> <<>>] :
         p \in SummaryAmounts, c \in SummaryAmounts, u \in SummaryAmounts}

\* Ledgers with rows of this year and of another year, on both sides of
\* the turn of the year, without a date and without an amount
YearRows ==
    {Row(None, Some(10000), Some(5000)),  Row(Some(5), Some(100), None),
     Row(Some(365), Some(200), Some(20000)), Row(Some(366), Some(30010), Some(100)),
     Row(Some(400), None, Some(-5000))}

LaterToday == 380

Todays == {Today, LaterToday}

YearInputs ==
    {[invoices |-> <<>>, promet_rows |-> rows,
      summary |-> Summary(None, None, None), today |-> t,
      readings |-> <<>>] :
         rows \in SeqsUpTo(YearRows, MaxRows), t \in Todays}

\* Meter readings of two years, in any order: lower and higher values,
\* two values of one day, a reading without a date, one without a value
MeterReadings ==
    {Reading(None, Some(100)),     Reading(Some(367), None),
     Reading(Some(330), Some(100)), Reading(Some(367), Some(90)),
     Reading(Some(367), Some(103)), Reading(Some(372), Some(100)),
     Reading(Some(377), Some(90)),  Reading(Some(377), Some(103))}

ReadingInputs ==
    {[invoices |-> <<>>, promet_rows |-> <<>>,
      summary |-> Summary(None, None, None), today |-> LaterToday,
      readings |-> rs] :
         rs \in SeqsUpTo(MeterReadings, MaxReadings)}

\* The service has not been asked anything: the module globals are as
\* the module sets them
NoRequests ==
    /\ _cache_data = None
    /\ _cache_timestamp = 0
    /\ clock = 0
    /\ requests = <<>>
    /\ built = 0

\* Invoice objects that an earlier reconciliation has marked: paid with a
\* payment, and paid without one
StaleInvoices ==
    {[Invoice(i, None, a) EXCEPT !.number = "stari", !.paid = TRUE,
                                 !.payment_date = d, !.payment_amount = u] :
         i \in {None, Some(10)}, a \in {Some(131940), Some(50000)},
         d \in {Some(9)}, u \in {Some(50000)}}
    \cup {[Invoice(Some(10), None, Some(131940))
               EXCEPT !.number = "stari", !.paid = TRUE],
          Invoice(Some(10), None, Some(131940))}

StaleInputs ==
    {[invoices |-> invs, promet_rows |-> rows,
      summary |-> Summary(None, None, None), today |-> Today,
      readings |-> <<>>] :
         invs \in SeqsUpTo(StaleInvoices, MaxInvoices) \ {<<>>},
         rows \in ListLedgers}

\* build_portal_payload is entered with these arguments
Start(in) ==
    /\ pc = "start"
    /\ heap = in.invoices
    /\ invoices = [i \in 1..Len(in.invoices) |-> i]
    /\ promet_rows = in.promet_rows
    /\ summary = in.summary
    /\ invoices_sorted = <<>>
    /\ finance = None
    /\ today = in.today
    /\ readings = in.readings
    /\ consumption = None
    /\ text = None
    /\ ppc = "idle"
    /\ result = ReturnsNone
    /\ previous = None
    /\ NoRequests

Init ==
    \/ \E in \in MatchInputs : Start(in)
    \/ \E in \in ListInputs : Start(in)
    \/ \E in \in LongInputs : Start(in)
    \/ \E in \in SummaryInputs : Start(in)
    \/ \E in \in YearInputs : Start(in)
    \/ \E in \in ReadingInputs : Start(in)
    \/ \E in \in StaleInputs : Start(in)

\* invoices_sorted = sorted(invoices, key=..., reverse=True)
SortInvoices ==
    /\ pc = "start"
    /\ invoices_sorted' = SortDesc(heap, invoices)
    /\ pc' = "sorted"
    /\ UNCHANGED <<heap, invoices, promet_rows, summary, finance, today,
                   readings, consumption>>
    /\ UNCHANGED <<previous, parser_vars, cache_vars>>

\* invoices_sorted = _maybe_prepend_latest_charge(promet_rows, invoices_sorted)
PrependLatestCharge ==
    /\ pc = "sorted"
    /\ \E synth \in {MaybePrependLatestCharge(promet_rows,
                          IF invoices_sorted = <<>> THEN None
                          ELSE Some(heap[invoices_sorted[1]]))} :
           IF synth = None
           THEN UNCHANGED <<heap, invoices_sorted>>
           ELSE /\ heap' = Append(heap, Val(synth))
                /\ invoices_sorted' = <<Len(heap) + 1>> \o invoices_sorted
    /\ pc' = "prepended"
    /\ UNCHANGED <<invoices, promet_rows, summary, finance, today, readings,
                   consumption>>
    /\ UNCHANGED <<previous, parser_vars, cache_vars>>

\* A variant in which a payment row pays one invoice only: the row that
\* paid an invoice is not a payment row for the invoices after it
RECURSIVE FirstPaying(_, _, _)
FirstPaying(rows, inv, k) ==
    IF k > Len(rows) THEN 0
    ELSE IF /\ rows[k].uplata_value = inv.payment_amount
            /\ rows[k].parsed_date = inv.payment_date
    THEN k
    ELSE FirstPaying(rows, inv, k + 1)

Consumed(rows, inv) ==
    IF inv.payment_amount = None THEN rows
    ELSE [k \in 1..Len(rows) |->
             IF k = FirstPaying(rows, inv, 1)
             THEN [rows[k] EXCEPT !.uplata_value = None]
             ELSE rows[k]]

RECURSIVE EnrichConsumingFrom(_, _, _, _)
EnrichConsumingStep(h, ids, k, rows, inv) ==
    EnrichConsumingFrom([h EXCEPT ![ids[k]] = inv], ids, k + 1,
                        Consumed(rows, inv))

EnrichConsumingFrom(h, ids, k, rows) ==
    IF k > Len(ids) THEN h
    ELSE EnrichConsumingStep(h, ids, k, rows, EnrichInvoice(h[ids[k]], rows))

EnrichInvoicesConsuming(h, ids, rows) == EnrichConsumingFrom(h, ids, 1, rows)

\* _enrich_invoices_with_payments(invoices_sorted, promet_rows): every
\* invoice of the list is updated in place
EnrichInvoices(h, ids, rows) ==
    [id \in 1..Len(h) |->
        IF \E k \in 1..Len(ids) : ids[k] = id
        THEN EnrichInvoice(h[id], rows)
        ELSE h[id]]

EnrichInvoicesWithPayments ==
    /\ pc = "prepended"
    /\ heap' = EnrichInvoices(heap, invoices_sorted, promet_rows)
    /\ pc' = "enriched"
    /\ UNCHANGED <<invoices, promet_rows, summary, invoices_sorted, finance,
                   today, readings, consumption>>
    /\ UNCHANGED <<previous, parser_vars, cache_vars>>

\* finance = _compute_finance_metrics(promet_rows, summary, invoices_sorted)
ComputeFinance ==
    /\ pc = "enriched"
    /\ finance' = Some(ComputeFinanceMetrics(heap, summary, invoices_sorted,
                                              promet_rows, today))
    /\ pc' = "done"
    /\ UNCHANGED <<heap, invoices, promet_rows, summary, invoices_sorted,
                   today, readings, consumption>>
    /\ UNCHANGED <<previous, parser_vars, cache_vars>>

\* consumption = _compute_consumption_metrics(readings), and the payload
\* is returned
ComputeConsumptionStep ==
    /\ pc = "done"
    /\ consumption' = Some(ComputeConsumptionMetrics(readings, today))
    /\ pc' = "returned"
    /\ UNCHANGED <<heap, invoices, promet_rows, summary, invoices_sorted,
                   finance, today, readings>>
    /\ UNCHANGED <<previous, parser_vars, cache_vars>>

Next ==
    \/ SortInvoices
    \/ PrependLatestCharge
    \/ EnrichInvoicesWithPayments
    \/ ComputeFinance
    \/ ComputeConsumptionStep

Spec == Init /\ [][Next]_vars

(***************************************************************************)
(* build_portal_payload called a second time with the arguments of the     *)
(* first call: the lists are the ones the caller holds, the invoice        *)
(* objects are as the first call left them.                                *)
(***************************************************************************)
\* the objects a list of references refers to
Objects(h, ids) == [k \in 1..Len(ids) |-> h[ids[k]]]

\* the payload by value: the finance report with the invoices it refers
\* to, and recent_invoices = invoices_sorted[:5]
Payload(h, sorted, f) ==
    [finance |->
         [f EXCEPT !.latest_invoice =
                       IF @ = None THEN None ELSE Some(h[Val(@)]),
                   !.unpaid_invoices = Objects(h, @)],
     recent_invoices |-> Objects(h, FirstN(sorted, DetailCap))]

\* the lines of build_portal_payload up to the finance report, on the
\* objects h and the list invs
BuildPrepended(h, sorted, synth) ==
    IF synth = None
    THEN [heap |-> h, invoices_sorted |-> sorted]
    ELSE [heap |-> Append(h, Val(synth)),
          invoices_sorted |-> <<Len(h) + 1>> \o sorted]

BuildSorted(h, sorted, rows) ==
    BuildPrepended(h, sorted,
        MaybePrependLatestCharge(rows,
            IF sorted = <<>> THEN None ELSE Some(h[sorted[1]])))

BuildEnriched(b, rows) ==
    [heap |-> EnrichInvoices(b.heap, b.invoices_sorted, rows),
     invoices_sorted |-> b.invoices_sorted]

BuildFinance(b, summ, rows, t) ==
    [heap |-> b.heap, invoices_sorted |-> b.invoices_sorted,
     finance |-> ComputeFinanceMetrics(b.heap, summ, b.invoices_sorted,
                                       rows, t)]

BuildPortalPayload(h, invs, rows, summ, t) ==
    BuildFinance(BuildEnriched(BuildSorted(h, SortDesc(h, invs), rows), rows),
                 summ, rows, t)

\* The caller keeps what the first call returned and calls again; the
\* pseudo-invoice of the first call is in no list of the caller
BuildAgain ==
    /\ pc = "returned"
    /\ previous' = Some(Payload(heap, invoices_sorted, Val(finance)))
    /\ \E b \in {BuildPortalPayload(SubSeq(heap, 1, Len(invoices)), invoices,
                                     promet_rows, summary, today)} :
           /\ heap' = b.heap
           /\ invoices_sorted' = b.invoices_sorted
           /\ finance' = Some(b.finance)
    /\ pc' = "rebuilt"
    /\ UNCHANGED <<invoices, promet_rows, summary, today, readings,
                   consumption>>
    /\ UNCHANGED <<parser_vars, cache_vars>>

RerunInit ==
    \/ \E in \in ListInputs : Start(in)
    \/ \E in \in LongInputs : Start(in)
    \/ \E in \in SummaryInputs : Start(in)
    \/ \E in \in YearInputs : Start(in)
    \/ \E in \in StaleInputs : Start(in)

RerunNext ==
    \/ Next
    \/ BuildAgain

RerunSpec == RerunInit /\ [][RerunNext]_vars

(***************************************************************************)
(* The primitive parsers as a state machine: a parser is called with a     *)
(* text and returns.                                                       *)
(***************************************************************************)
TwoDigits(n) == <<DigitChars[(n \div 10) + 1], DigitChars[(n % 10) + 1]>>

FourDigits(n) == TwoDigits(n \div 100) \o TwoDigits(n % 100)

\* Short dates: days and months with and without a leading zero, past the
\* end of a month and of the year, every two-digit year, some four-digit
\* years
DayTexts ==
    {<<"1">>, <<"0", "1">>, <<"2", "9">>, <<"3", "0">>, <<"3", "1">>,
     <<"3", "2">>}

MonthTexts == {<<"1">>, <<"0", "2">>, <<"4">>, <<"1", "2">>, <<"1", "3">>}

YearTexts ==
    {TwoDigits(yy) : yy \in 0..99}
        \cup {FourDigits(y) : y \in {0, 1969, 2024, 2025}}

ShortTexts ==
    {d \o <<".">> \o m \o <<".">> \o y :
         d \in DayTexts, m \in MonthTexts, y \in YearTexts}
        \cup {<<" ", "1", ".", " ", "1", ".", " ", "2", "5", " ">>,
              <<"1", ".", "1", ".", "2", "5", ".">>,
              <<"1", ".", "1", ".", "2", "0", "2", "5", "5">>}

\* Long dates: month names of the table, in capitals, and unknown ones
NameTexts ==
    {<<"s", "t", "u", "d", "e", "n", "o", "g">>,
     <<"S", "t", "u", "d", "e", "n", "o", "g">>,
     <<"t", "r", "a", "v", "n", "j", "a">>,
     <<"v", "e", "l", "j", "a", "c-caron", "e">>,
     <<"o", "z", "u", "j", "k", "a">>,
     <<"n", "o", "v", "e", "m", "b", "r", "a">>,
     <<"s", "t", "u", "d", "e", "n", "i">>}

LongDayTexts ==
    {<<"1">>, <<"2", "9">>, <<"3", "1">>, <<"0">>, <<"1", "2", "7">>}

LongYearTexts == {FourDigits(y) : y \in {0, 2024, 2025}} \cup {<<"2", "5">>}

LongTails == {<<>>, <<".">>, <<".", "x">>}

LongTexts ==
    {d \o <<".", " ">> \o name \o <<" ">> \o y \o tail :
         d \in LongDayTexts, name \in NameTexts, y \in LongYearTexts,
         tail \in LongTails}
        \cup {<<"2", "7", ".", "r", "u", "j", "n", "a", " ", "2", "0", "2", "5">>,
              <<" ", "2", "7", ".", " ", " ", "r", "u", "j", "n", "a", " ", " ",
                "2", "0", "2", "5">>}

\* Amounts: with thousands separators, decimal commas, signs, currency
\* marks, letters, and the words float() reads
AmountTexts ==
    {body \o mark :
         body \in
             {<<"5", "3", "1", ",", "1", "4">>,
              <<"1", ".", "2", "3", "4", ",", "5", "6">>,
              <<"1", " ", "2", "3", "4", ",", "5", "6">>,
              <<"0">>, <<"5">>, <<"5", ",">>, <<",", "5">>, <<",">>,
              <<"-", "5", ",", "5">>, <<"+", "5">>, <<"-">>,
              <<"1", ",", "2", ",", "3">>,
              <<"a", "b", "c">>, <<"1", "2", ",", "5", " ", "k", "n">>,
              <<"n", "a", "n">>, <<"N", "a", "N">>, <<"i", "n", "f">>,
              <<"-", "i", "n", "f">>,
              <<"I", "n", "f", "i", "n", "i", "t", "y">>,
              <<"1", "e", "3">>, <<"1", ",", "5", "E", "2">>,
              <<"5", "e", "-", "2">>, <<"1", "e">>, <<"e", "5">>,
              <<"5", "E", "U", "R", "5">>, <<" ">>},
         mark \in {<<>>, <<" ", "euro">>, <<"E", "U", "R">>}}

ParserTexts ==
    {None, Some(<<>>)}
        \cup {Some(t) : t \in ShortTexts \cup LongTexts \cup AmountTexts}

ParserInit ==
    /\ pc = "idle"
    /\ heap = <<>>
    /\ invoices = <<>>
    /\ promet_rows = <<>>
    /\ summary = Summary(None, None, None)
    /\ invoices_sorted = <<>>
    /\ finance = None
    /\ today = Today
    /\ readings = <<>>
    /\ consumption = None
    /\ text \in ParserTexts
    /\ ppc = "call"
    /\ result = ReturnsNone
    /\ previous = None
    /\ NoRequests

CallHrShortDate ==
    /\ ppc = "call"
    /\ result' = ParseHrShortDate(text)
    /\ ppc' = "short"
    /\ UNCHANGED <<text, report_vars, previous, cache_vars>>

CallHrLongDate ==
    /\ ppc = "call"
    /\ result' = ParseHrLongDate(text)
    /\ ppc' = "long"
    /\ UNCHANGED <<text, report_vars, previous, cache_vars>>

CallEuroAmount ==
    /\ ppc = "call"
    /\ result' = ParseEuroAmount(text)
    /\ ppc' = "amount"
    /\ UNCHANGED <<text, report_vars, previous, cache_vars>>

ParserNext ==
    \/ CallHrShortDate
    \/ CallHrLongDate
    \/ CallEuroAmount

ParserSpec == ParserInit /\ [][ParserNext]_vars

(***************************************************************************)
(* _compute_consumption of src/pis_pis_meter/pis_pis_meter/parser.py,      *)
(* called on its own with a list of readings.                              *)
(***************************************************************************)
ConsumptionInit ==
    /\ pc = "compute"
    /\ heap = <<>>
    /\ invoices = <<>>
    /\ promet_rows = <<>>
    /\ summary = Summary(None, None, None)
    /\ invoices_sorted = <<>>
    /\ finance = None
    /\ today \in Todays
    /\ readings \in SeqsUpTo(MeterReadings, MaxReadings)
    /\ consumption = None
    /\ text = None
    /\ ppc = "idle"
    /\ result = ReturnsNone
    /\ previous = None
    /\ NoRequests

CallComputeConsumption ==
    /\ pc = "compute"
    /\ consumption' = Some(ComputeConsumption(readings, today))
    /\ pc' = "computed"
    /\ UNCHANGED <<heap, invoices, promet_rows, summary, invoices_sorted,
                   finance, today, readings>>
    /\ UNCHANGED <<previous, parser_vars, cache_vars>>

ConsumptionNext == CallComputeConsumption

ConsumptionSpec == ConsumptionInit /\ [][ConsumptionNext]_vars

(***************************************************************************)
(* The HTTP service of src/pis_pis_meter/pis_pis_meter/app.py: the cached  *)
(* report, its timestamp, and the requests that read and refresh them.     *)
(* Every request runs _fetch_data in a thread of its own; a step is one    *)
(* line that reads or writes the module globals, and the steps of          *)
(* different requests interleave freely because the module takes no lock.  *)
(* A report is named by the number of the build that produced it, an       *)
(* exception by its text, and time is counted in seconds.                  *)
(***************************************************************************)
RETRY_ATTEMPTS == 3

RETRY_DELAY_SECONDS == 3

\* cache_ttl_seconds as _load_options defaults it
CACHE_TTL_SECONDS == 86400

MaxRequests == 2

MaxTicks == 1

\* The service starts long after the epoch: the initial timestamp 0.0 is
\* older than any TTL
StartTime == 2 * CACHE_TTL_SECONDS

\* The requests that reach _fetch_data: GET /data, GET /data?refresh=true
\* and GET /health, which never forces a refresh
Arrivals ==
    {[route |-> "data", force_refresh |-> FALSE],
     [route |-> "data", force_refresh |-> TRUE],
     [route |-> "health", force_refresh |-> FALSE]}

\* str(exc) of what collect_pis_data raises: an exception built without
\* arguments has the empty text
ErrorTexts == {"", "Login failed"}

\* A request that has not arrived
Waiting ==
    [pc |-> "waiting", route |-> "data", force_refresh |-> FALSE,
     attempt |-> 0, failed |-> 0, slept |-> 0, wake |-> 0,
     last_error |-> None, data |-> None, stamp |-> None, answer |-> None]

CacheInit ==
    /\ pc = "idle"
    /\ heap = <<>>
    /\ invoices = <<>>
    /\ promet_rows = <<>>
    /\ summary = Summary(None, None, None)
    /\ invoices_sorted = <<>>
    /\ finance = None
    /\ today = Today
    /\ readings = <<>>
    /\ consumption = None
    /\ text = None
    /\ ppc = "idle"
    /\ result = ReturnsNone
    /\ previous = None
    /\ _cache_data = None
    /\ _cache_timestamp = 0
    /\ clock = StartTime
    /\ requests = [i \in 1..MaxRequests |-> Waiting]
    /\ built = 0

\* The truth value Python gives an Optional[str]
Truthy(error) == error # None /\ Val(error) # ""

\* Fresh, taking a report of exactly the TTL for young
FreshInclusive(now, timestamp) == now - timestamp <= CACHE_TTL_SECONDS

\* now - _cache_timestamp < CACHE_TTL_SECONDS
Fresh(now, timestamp) == now - timestamp < CACHE_TTL_SECONDS

\* The condition of the early return of _fetch_data
CacheHit(force_refresh, data, timestamp, now) ==
    ~force_refresh /\ data # None /\ Fresh(now, timestamp)

\* What a route answers when _fetch_data returns (data, ts, from_cache,
\* error): /data spreads the report into the body, /health does not
Respond(route, data, ts, from_cache, error) ==
    [code |-> 200,
     report |-> IF route = "data" THEN data ELSE None,
     cached |-> Some(from_cache),
     cached_at |-> Some(ts),
     state |-> IF Truthy(error) THEN "degraded" ELSE "ok",
     error |-> error]

\* Refuse, answering with an empty report instead of the error
RefuseEmpty(route, exc) == Respond(route, None, 0, FALSE, None)

\* What a route answers when _fetch_data raises exc
Refuse(route, exc) ==
    [code |-> 500,
     report |-> None,
     cached |-> None,
     cached_at |-> None,
     state |-> IF route = "data" THEN "absent" ELSE "error",
     error |-> IF route = "data"
               THEN Some("Failed to collect data from PIS portal. Check credentials and connectivity.")
               ELSE exc]

\* Lines 127 and 153, and the test of line 77
Arrive(i, route, force) ==
    /\ requests[i].pc = "waiting"
    /\ IF i = 1 THEN TRUE ELSE requests[i - 1].pc # "waiting"
    /\ requests' =
         [requests EXCEPT ![i] =
              [@ EXCEPT !.route = route,
                        !.force_refresh = force,
                        !.pc = IF CacheHit(force, _cache_data,
                                           _cache_timestamp, clock)
                               THEN "hit" ELSE "collecting",
                        !.attempt = IF CacheHit(force, _cache_data,
                                                _cache_timestamp, clock)
                                    THEN 0 ELSE 1]]
    /\ UNCHANGED <<_cache_data, _cache_timestamp, clock, built>>
    /\ UNCHANGED <<report_vars, previous, parser_vars>>

\* Line 81
ServeCached(i) ==
    /\ requests[i].pc = "hit"
    /\ requests' =
         [requests EXCEPT ![i] =
              [@ EXCEPT !.pc = "answered",
                        !.answer = Some(Respond(requests[i].route, _cache_data,
                                                _cache_timestamp, TRUE,
                                                None))]]
    /\ UNCHANGED <<_cache_data, _cache_timestamp, clock, built>>
    /\ UNCHANGED <<report_vars, previous, parser_vars>>

\* Line 88, collect_pis_data returns a report
Succeed(i) ==
    /\ requests[i].pc = "collecting"
    /\ built' = built + 1
    /\ requests' =
         [requests EXCEPT ![i] =
              [@ EXCEPT !.pc = "collected", !.data = Some(built + 1)]]
    /\ UNCHANGED <<_cache_data, _cache_timestamp, clock>>
    /\ UNCHANGED <<report_vars, previous, parser_vars>>

\* Fail, going on to one attempt more than RETRY_ATTEMPTS
FailOnceMore(i, e) ==
    /\ requests[i].pc = "collecting"
    /\ requests' =
         [requests EXCEPT ![i] =
              IF @.attempt <= RETRY_ATTEMPTS
              THEN [@ EXCEPT !.last_error = Some(e),
                             !.failed = @ + 1,
                             !.pc = "sleeping",
                             !.slept = @ + 1,
                             !.wake = clock + RETRY_DELAY_SECONDS]
              ELSE [@ EXCEPT !.last_error = Some(e),
                             !.failed = @ + 1,
                             !.pc = "exhausted"]]
    /\ UNCHANGED <<_cache_data, _cache_timestamp, clock, built>>
    /\ UNCHANGED <<report_vars, previous, parser_vars>>

\* Line 88, collect_pis_data raises, and lines 98 to 102
Fail(i, e) ==
    /\ requests[i].pc = "collecting"
    /\ requests' =
         [requests EXCEPT ![i] =
              IF @.attempt < RETRY_ATTEMPTS
              THEN [@ EXCEPT !.last_error = Some(e),
                             !.failed = @ + 1,
                             !.pc = "sleeping",
                             !.slept = @ + 1,
                             !.wake = clock + RETRY_DELAY_SECONDS]
              ELSE [@ EXCEPT !.last_error = Some(e),
                             !.failed = @ + 1,
                             !.pc = "exhausted"]]
    /\ UNCHANGED <<_cache_data, _cache_timestamp, clock, built>>
    /\ UNCHANGED <<report_vars, previous, parser_vars>>

\* time.sleep returns and the loop of line 84 goes on to the next attempt
Wake(i) ==
    /\ requests[i].pc = "sleeping"
    /\ clock' = IF clock < requests[i].wake THEN requests[i].wake ELSE clock
    /\ requests' =
         [requests EXCEPT ![i] =
              [@ EXCEPT !.pc = "collecting", !.attempt = @ + 1,
                        !.wake = 0]]
    /\ UNCHANGED <<_cache_data, _cache_timestamp, built>>
    /\ UNCHANGED <<report_vars, previous, parser_vars>>

\* Line 89
SetData(i) ==
    /\ requests[i].pc = "collected"
    /\ _cache_data' = requests[i].data
    /\ requests' = [requests EXCEPT ![i] = [@ EXCEPT !.pc = "stored"]]
    /\ UNCHANGED <<_cache_timestamp, clock, built>>
    /\ UNCHANGED <<report_vars, previous, parser_vars>>

\* Line 90, the call of time.time()
ReadTime(i) ==
    /\ requests[i].pc = "stored"
    /\ requests' =
         [requests EXCEPT ![i] =
              [@ EXCEPT !.pc = "timed", !.stamp = Some(clock)]]
    /\ UNCHANGED <<_cache_data, _cache_timestamp, clock, built>>
    /\ UNCHANGED <<report_vars, previous, parser_vars>>

\* Line 90, the assignment
SetTimestamp(i) ==
    /\ requests[i].pc = "timed"
    /\ _cache_timestamp' = Val(requests[i].stamp)
    /\ requests' = [requests EXCEPT ![i] = [@ EXCEPT !.pc = "stamped"]]
    /\ UNCHANGED <<_cache_data, clock, built>>
    /\ UNCHANGED <<report_vars, previous, parser_vars>>

\* Line 97
ServeFresh(i) ==
    /\ requests[i].pc = "stamped"
    /\ requests' =
         [requests EXCEPT ![i] =
              [@ EXCEPT !.pc = "answered",
                        !.answer = Some(Respond(requests[i].route, requests[i].data,
                                                _cache_timestamp, FALSE,
                                                None))]]
    /\ UNCHANGED <<_cache_data, _cache_timestamp, clock, built>>
    /\ UNCHANGED <<report_vars, previous, parser_vars>>

\* Lines 104 and 108: the test of the cache after the last attempt, and
\* the exception that the route turns into its answer
Fallback(i) ==
    /\ requests[i].pc = "exhausted"
    /\ requests' =
         [requests EXCEPT ![i] =
              IF _cache_data # None
              THEN [@ EXCEPT !.pc = "fallback"]
              ELSE [@ EXCEPT !.pc = "answered",
                             !.answer = Some(Refuse(requests[i].route,
                                                    requests[i].last_error))]]
    /\ UNCHANGED <<_cache_data, _cache_timestamp, clock, built>>
    /\ UNCHANGED <<report_vars, previous, parser_vars>>

\* Line 106
ServeStale(i) ==
    /\ requests[i].pc = "fallback"
    /\ requests' =
         [requests EXCEPT ![i] =
              [@ EXCEPT !.pc = "answered",
                        !.answer = Some(Respond(requests[i].route, _cache_data,
                                                _cache_timestamp, TRUE,
                                                requests[i].last_error))]]
    /\ UNCHANGED <<_cache_data, _cache_timestamp, clock, built>>
    /\ UNCHANGED <<report_vars, previous, parser_vars>>

\* A TTL goes by
Tick ==
    /\ clock < StartTime + MaxTicks * CACHE_TTL_SECONDS
    /\ clock' = clock + CACHE_TTL_SECONDS
    /\ UNCHANGED <<_cache_data, _cache_timestamp, requests, built>>
    /\ UNCHANGED <<report_vars, previous, parser_vars>>

\* collect_pis_data comes back, one way or the other
Collected(i) == Succeed(i) \/ \E e \in ErrorTexts : Fail(i, e)

\* A step of the thread of request i inside _fetch_data
Proceed(i) ==
    \/ ServeCached(i)
    \/ Wake(i)
    \/ SetData(i)
    \/ ReadTime(i)
    \/ SetTimestamp(i)
    \/ ServeFresh(i)
    \/ Fallback(i)
    \/ ServeStale(i)

CacheNext ==
    \/ \E i \in 1..MaxRequests, a \in Arrivals :
           Arrive(i, a.route, a.force_refresh)
    \/ \E i \in 1..MaxRequests : Collected(i)
    \/ \E i \in 1..MaxRequests : Proceed(i)
    \/ Tick

CacheSpec == CacheInit /\ [][CacheNext]_vars

\* Every build attempt comes back and every thread gets to run
FairCacheSpec ==
    /\ CacheSpec
    /\ \A i \in 1..MaxRequests : WF_vars(Collected(i)) /\ WF_vars(Proceed(i))

(***************************************************************************)
(* Properties of the reconciliation.  The reconciled invoices are the      *)
(* objects the list invoices_sorted refers to, once pc is past the         *)
(* reconciliation.  Amounts are compared below as the specification states *)
(* them, in exact arithmetic on thousandths of the currency unit.          *)
(***************************************************************************)
Reconciled == pc \in {"enriched", "done", "returned"}

ReconciledIds == {invoices_sorted[k] : k \in 1..Len(invoices_sorted)}

NothingOwed(inv) == inv.amount = None \/ Val(inv.amount) <= 0

NoPaymentFields(inv) == inv.payment_date = None /\ inv.payment_amount = None

AbsDiff(a, b) == IF a >= b THEN a - b ELSE b - a

\* abs(row_amount - amount) <= 0.01, exactly
WithinTolerance(row_amount, amount) ==
    AbsDiff(row_amount, amount) * 100 <= Milli

ChargesWithin(amount) ==
    {i \in 1..Len(promet_rows) :
        /\ OrZero(promet_rows[i].zaduzenje_value) > 0
        /\ WithinTolerance(Val(promet_rows[i].zaduzenje_value), amount)}

PaymentsWithin(amount) ==
    {i \in 1..Len(promet_rows) :
        /\ OrZero(promet_rows[i].uplata_value) > 0
        /\ WithinTolerance(Val(promet_rows[i].uplata_value), amount)}

PaidBy(inv, i) ==
    /\ inv.payment_date = promet_rows[i].parsed_date
    /\ inv.payment_amount = promet_rows[i].uplata_value

\* C1: after the reconciliation every invoice whose amount is absent or
\* <= 0 is paid and has neither a payment date nor a payment amount,
\* whatever the ledger rows are.
C1_NothingOwedIsPaid ==
    Reconciled =>
        \A id \in ReconciledIds :
            NothingOwed(heap[id]) =>
                heap[id].paid /\ NoPaymentFields(heap[id])

\* An invoice without an amount, reconciled against a ledger that holds
\* payments
C1_Witness ==
    /\ pc = "done"
    /\ PaymentRows(promet_rows) # <<>>
    /\ \E id \in ReconciledIds :
           heap[id].amount = None /\ heap[id].paid /\ NoPaymentFields(heap[id])

\* C2: after the reconciliation an invoice with amount > 0 is paid if and
\* only if the ledger holds a charge row within 0.01 of its amount and a
\* payment row within 0.01 of its amount; when it is paid its payment date
\* and payment amount are those of one such payment row, and when it is
\* not paid both are absent.
PaidIffMatched(inv) ==
    /\ inv.paid <=> (/\ ChargesWithin(Val(inv.amount)) # {}
                     /\ PaymentsWithin(Val(inv.amount)) # {})
    /\ inv.paid => \E i \in PaymentsWithin(Val(inv.amount)) : PaidBy(inv, i)
    /\ ~inv.paid => NoPaymentFields(inv)

C2_PaidIffMatched ==
    Reconciled =>
        \A id \in ReconciledIds :
            ~NothingOwed(heap[id]) => PaidIffMatched(heap[id])

\* C3: a charge row is a candidate for an invoice exactly when
\* abs(charge_amount - invoice.amount) <= 0.01: 100.01 is a candidate for
\* an invoice of 100.00 and 100.02 is not.  A row is a candidate when the
\* loop over the charge rows, started on it with nothing chosen, takes it.
IsCandidate(i, amount) ==
    ChargeConsider(i, AmountDiff(Val(promet_rows[i].zaduzenje_value), amount),
                   0, None) # None

C3_ToleranceInclusive ==
    pc = "enriched" =>
        \A id \in ReconciledIds :
            ~NothingOwed(heap[id]) =>
                \A k \in 1..Len(ChargeRows(promet_rows)) :
                    IsCandidate(ChargeRows(promet_rows)[k], Val(heap[id].amount))
                    <=> WithinTolerance(
                            Val(promet_rows[ChargeRows(promet_rows)[k]].zaduzenje_value),
                            Val(heap[id].amount))

\* C4: among the charge rows within 0.01 of the invoice amount the one with
\* the lowest score amount_diff + date_penalty/100 is selected, and among
\* several rows with that score the first in ledger order.  In thousandths
\* the score is the difference plus ten times the number of days.
ExactScore(i, inv) ==
    AbsDiff(Val(promet_rows[i].zaduzenje_value), Val(inv.amount))
    + 10 * DatePenalty(promet_rows[i].parsed_date, inv.issue_date)

LowestScoreFirst(i, inv) ==
    \A j \in ChargesWithin(Val(inv.amount)) :
        \/ ExactScore(i, inv) < ExactScore(j, inv)
        \/ ExactScore(i, inv) = ExactScore(j, inv) /\ i <= j

ChosenCharge(inv) == BestCharge(promet_rows, Val(inv.amount), inv.issue_date)

SelectsLowestScore(inv, best_charge) ==
    IF ChargesWithin(Val(inv.amount)) = {} THEN best_charge = None
    ELSE /\ best_charge # None
         /\ Val(best_charge).row \in ChargesWithin(Val(inv.amount))
         /\ LowestScoreFirst(Val(best_charge).row, inv)

C4_LowestScoreFirst ==
    pc = "enriched" =>
        \A id \in ReconciledIds :
            ~NothingOwed(heap[id]) =>
                SelectsLowestScore(heap[id], ChosenCharge(heap[id]))

\* C5: once a charge row is matched, the invoice is paid by the payment row
\* that, among the payment rows within 0.01 of the invoice amount, is the
\* smallest number of days away from the date of the matched charge (0 when
\* a date is absent), payments dated before the charge included.
NearestPayment(i, inv, charge_date) ==
    \A j \in PaymentsWithin(Val(inv.amount)) :
        DatePenalty(promet_rows[i].parsed_date, charge_date)
            <= DatePenalty(promet_rows[j].parsed_date, charge_date)

PaidByNearest(inv, best_charge) ==
    (best_charge # None /\ PaymentsWithin(Val(inv.amount)) # {}) =>
        /\ inv.paid
        /\ \E i \in PaymentsWithin(Val(inv.amount)) :
               /\ PaidBy(inv, i)
               /\ NearestPayment(i, inv,
                      promet_rows[Val(best_charge).row].parsed_date)

C5_NearestPayment ==
    pc = "enriched" =>
        \A id \in ReconciledIds :
            ~NothingOwed(heap[id]) =>
                PaidByNearest(heap[id], ChosenCharge(heap[id]))

\* C6: an invoice with amount > 0 for which no charge row lies within 0.01
\* of the amount ends unpaid, with no payment date and no payment amount,
\* even when the ledger holds a payment row of exactly its amount.
C6_NoChargeNoPayment ==
    Reconciled =>
        \A id \in ReconciledIds :
            (~NothingOwed(heap[id]) /\ ChargesWithin(Val(heap[id].amount)) = {})
                => ~heap[id].paid /\ NoPaymentFields(heap[id])

\* An unpaid invoice with no charge near its amount and a payment row of
\* exactly its amount in the ledger
C6_Witness ==
    /\ pc = "done"
    /\ \E id \in ReconciledIds :
           /\ ~NothingOwed(heap[id])
           /\ ChargesWithin(Val(heap[id].amount)) = {}
           /\ \E i \in 1..Len(promet_rows) :
                  promet_rows[i].uplata_value = heap[id].amount
           /\ ~heap[id].paid

(***************************************************************************)
(* Properties of the finance report                                        *)
(***************************************************************************)
\* previous_debt + total_charges - total_payments, from the totals the
\* report repeats
ReportBalance(f) ==
    FloatSub(FloatAdd(ToFloat(f.previous_debt), ToFloat(f.charges_total)),
             ToFloat(f.payments_total))

SnapRule(f, balance) ==
    IF FloatLess(FloatAbs(balance), EPS_BALANCE)
    THEN f.balance = FloatZero /\ f.status = "podmireno"
    ELSE /\ f.balance = balance
         /\ f.status = IF FloatGreater(balance, FloatZero) THEN "dug"
                       ELSE "preplata"

\* C7: with balance = previous_debt + total_charges - total_payments as the
\* aggregator computes it, abs(balance) < 0.005 gives a reported balance of
\* exactly 0 and the settled status; otherwise the balance is reported as
\* computed, with the debt status when it is > 0 and the credit status when
\* it is < 0.  So the status is settled exactly when the reported balance
\* is 0.
C7_BalanceSnap ==
    pc = "done" =>
        /\ SnapRule(Val(finance), ReportBalance(Val(finance)))
        /\ Val(finance).status = "podmireno" <=> Val(finance).balance = FloatZero

\* previous_debt 10.00, charges 0.00 (or absent), payments 10.004: the
\* computed balance is not zero and the report says 0 and settled
C7_Witness ==
    /\ pc = "done"
    /\ Val(finance).previous_debt = 10000
    /\ Val(finance).charges_total = 0
    /\ Val(finance).payments_total = 10004
    /\ ReportBalance(Val(finance)) # FloatZero
    /\ Val(finance).balance = FloatZero
    /\ Val(finance).status = "podmireno"

\* The reconciled invoices with paid = false, in the order of the list
NotPaid == SelectSeq(invoices_sorted, LAMBDA id : ~heap[id].paid)

RECURSIVE TotalFrom(_, _, _)
TotalFrom(ids, k, acc) ==
    IF k > Len(ids) THEN acc
    ELSE TotalFrom(ids, k + 1,
                   FloatAdd(acc, ToFloat(OrZero(heap[ids[k]].amount))))

\* C8: the unpaid count is the number of reconciled invoices with
\* paid = false and the unpaid total is the sum of their amounts (added in
\* the order of the list), for every invoice list and ledger.
C8_UnpaidRollUp ==
    pc = "done" =>
        /\ Val(finance).unpaid_count = Len(NotPaid)
        /\ Val(finance).unpaid_total = TotalFrom(NotPaid, 1, FloatZero)

\* A list with paid and unpaid invoices, and one with more unpaid invoices
\* than the detail list holds
C8_Witness ==
    /\ pc = "done"
    /\ \/ Val(finance).unpaid_count = 2 /\ Len(invoices_sorted) = 3
       \/ Val(finance).unpaid_count > DetailCap
    /\ Val(finance).unpaid_total # FloatZero

\* The issue date of an invoice, an absent one counting as the earliest
IssueRank(inv) == IF inv.issue_date # None THEN Val(inv.issue_date) ELSE 0

\* The date the invoices are sorted on: the issue date, else the due date;
\* an invoice with neither counts as the earliest
DateRank(inv) ==
    IF inv.issue_date # None THEN Val(inv.issue_date)
    ELSE IF inv.due_date # None THEN Val(inv.due_date)
    ELSE 0

Smaller(a, b) == IF a < b THEN a ELSE b

InList(id, list) == \E k \in 1..Len(list) : list[k] = id

Descending(list, rank(_)) ==
    \A i, j \in 1..Len(list) : i < j => rank(heap[list[i]]) >= rank(heap[list[j]])

\* No unpaid invoice of others left out of list is more recent than one in it
MostRecent(list, others, rank(_)) ==
    \A id \in others :
        (~heap[id].paid /\ ~InList(id, list)) =>
            \A k \in 1..Len(list) : rank(heap[list[k]]) >= rank(heap[id])

RealIds == {id \in ReconciledIds : ~heap[id].synthetic}

\* C9 as stated: the unpaid detail list has at most 5 entries, which are
\* the 5 unpaid invoices most recent by issue date, in descending order of
\* issue date, an absent issue date counting as the earliest.
C9_DetailByIssueDate ==
    pc = "done" =>
        /\ Len(Val(finance).unpaid_invoices) = Smaller(DetailCap, Len(NotPaid))
        /\ \A k \in 1..Len(Val(finance).unpaid_invoices) :
               InList(Val(finance).unpaid_invoices[k], NotPaid)
        /\ Descending(Val(finance).unpaid_invoices, IssueRank)
        /\ MostRecent(Val(finance).unpaid_invoices, ReconciledIds, IssueRank)

RealOnes(list) == SelectSeq(list, LAMBDA id : ~heap[id].synthetic)

PseudoFirst(list) ==
    \A k \in 1..Len(list) : heap[list[k]].synthetic => k = 1

\* C9, amended: the unpaid detail list is the first 5 (or fewer) unpaid
\* invoices of the reconciled list.  Its invoices read from the portal are
\* the unpaid ones most recent by issue date or, when the issue date is
\* absent, due date, in descending order of that date, an invoice with
\* neither date counting as the earliest; a pseudo-invoice synthesized from
\* the ledger, if unpaid, is the first entry whatever its date.
C9_DetailByListOrder ==
    pc = "done" =>
        /\ Val(finance).unpaid_invoices
               = SubSeq(NotPaid, 1, Smaller(DetailCap, Len(NotPaid)))
        /\ Len(Val(finance).unpaid_invoices) <= DetailCap
        /\ PseudoFirst(Val(finance).unpaid_invoices)
        /\ Descending(RealOnes(Val(finance).unpaid_invoices), DateRank)
        /\ MostRecent(RealOnes(Val(finance).unpaid_invoices), RealIds, DateRank)

\* More unpaid invoices than the cap; in the detail list an invoice with a
\* due date and no issue date comes before one with an earlier issue date
C9_Witness ==
    /\ pc = "done"
    /\ Len(NotPaid) > DetailCap
    /\ Len(Val(finance).unpaid_invoices) = DetailCap
    /\ \E i, j \in 1..DetailCap :
           /\ i < j
           /\ heap[Val(finance).unpaid_invoices[i]].issue_date = None
           /\ heap[Val(finance).unpaid_invoices[i]].due_date # None
           /\ heap[Val(finance).unpaid_invoices[j]].issue_date # None

\* The sort date of C10: the issue date, else the due date, else the
\* payment date
ClaimedSortDate(inv) ==
    IF inv.issue_date # None THEN Val(inv.issue_date)
    ELSE IF inv.due_date # None THEN Val(inv.due_date)
    ELSE IF inv.payment_date # None THEN Val(inv.payment_date)
    ELSE 0

LatestIs(f, list) ==
    f.latest_invoice = IF list = <<>> THEN None ELSE Some(list[1])

\* C10 as stated: the reported latest invoice is the first of the
\* reconciled invoices in descending order of issue date, the due date or
\* else the payment date standing in for an absent issue date; no invoice
\* of the list has a later sort date.
C10_LatestBySortDate ==
    pc = "done" =>
        /\ Val(finance).latest_invoice = None <=> invoices_sorted = <<>>
        /\ Val(finance).latest_invoice # None =>
               \A id \in ReconciledIds :
                   ClaimedSortDate(heap[id])
                       <= ClaimedSortDate(heap[Val(Val(finance).latest_invoice)])

\* C10, amended: the reported latest invoice is the first element of the
\* reconciled list.  When no pseudo-invoice was synthesized from the ledger
\* it is the first of the invoices in descending order of issue date, the
\* due date (never the payment date) standing in for an absent issue date,
\* and no invoice of the list has a later such date; a synthesized
\* pseudo-invoice is the one reported, and the invoices read from the
\* portal follow it in that order.
C10_LatestIsFirstOfList ==
    pc = "done" =>
        /\ LatestIs(Val(finance), invoices_sorted)
        /\ PseudoFirst(invoices_sorted)
        /\ Descending(RealOnes(invoices_sorted), DateRank)

\* The latest invoice is one without an issue date, placed by its due
\* date before an invoice issued earlier, and no pseudo-invoice was added
C10_Witness ==
    /\ pc = "done"
    /\ Len(invoices_sorted) >= 2
    /\ Val(finance).latest_invoice = Some(invoices_sorted[1])
    /\ ~heap[invoices_sorted[1]].synthetic
    /\ heap[invoices_sorted[1]].issue_date = None
    /\ heap[invoices_sorted[1]].due_date # None
    /\ heap[invoices_sorted[2]].issue_date # None

(***************************************************************************)
(* Properties of the pseudo-invoice                                        *)
(***************************************************************************)
Prepended == pc \in {"prepended", "enriched", "done", "returned"}

PseudoIds == {id \in ReconciledIds : heap[id].synthetic}

\* The dated rows with a charge > 0
DatedCharges ==
    {i \in 1..Len(promet_rows) :
        /\ OrZero(promet_rows[i].zaduzenje_value) > 0
        /\ promet_rows[i].parsed_date # None}

MostRecentCharge(i) ==
    /\ i \in DatedCharges
    /\ \A j \in DatedCharges :
           Val(promet_rows[j].parsed_date) <= Val(promet_rows[i].parsed_date)

TakenFrom(inv, i) ==
    /\ inv.issue_date = promet_rows[i].parsed_date
    /\ inv.amount = promet_rows[i].zaduzenje_value

\* The issue dates of the invoices read from the portal
RealIssueDates ==
    {Val(heap[id].issue_date) : id \in {r \in RealIds : heap[r].issue_date # None}}

AfterEveryIssueDate(d) == \A issued \in RealIssueDates : d > issued

\* C11: a pseudo-invoice comes only from the most recent dated row with a
\* charge > 0, and only when there is no invoice or that row is dated
\* strictly after the newest issue date of the invoices; when the row is
\* dated on or before that issue date there is no pseudo-invoice and the
\* latest invoice is one of the invoices read from the portal.
C11_PseudoOnlyWhenNewer ==
    Prepended =>
        /\ \A id \in PseudoIds :
               /\ \E i \in DatedCharges :
                      MostRecentCharge(i) /\ TakenFrom(heap[id], i)
               /\ RealIds = {} \/ AfterEveryIssueDate(Val(heap[id].issue_date))
        /\ (/\ RealIds # {}
            /\ \E i \in DatedCharges :
                   ~AfterEveryIssueDate(Val(promet_rows[i].parsed_date))
                   /\ MostRecentCharge(i))
               => /\ PseudoIds = {}
                  /\ pc = "done" =>
                         /\ Val(finance).latest_invoice # None
                         /\ ~heap[Val(Val(finance).latest_invoice)].synthetic

(***************************************************************************)
(* Properties of the year statistics                                       *)
(***************************************************************************)
FirstDayOf(y) ==
    1 + 365 * (y - EpochYear)
      + Cardinality({x \in EpochYear..(y - 1) : IsLeap(x)})

CalendarYear(d) ==
    CHOOSE y \in EpochYear..(EpochYear + 2) :
        FirstDayOf(y) <= d /\ d < FirstDayOf(y + 1)

RowsOfYear(y) ==
    SelectSeq(promet_rows,
              LAMBDA r : r.parsed_date # None
                         /\ CalendarYear(Val(r.parsed_date)) = y)

\* The sum of a column, an absent amount counted as 0
RECURSIVE ColumnSum(_, _)
ColumnSum(rows, column) ==
    IF rows = <<>> THEN FloatZero
    ELSE FloatAdd(ColumnSum(SubSeq(rows, 1, Len(rows) - 1), column),
                  ToFloat(OrZero(rows[Len(rows)][column])))

\* C12: the year statistics are the sums of the charges and of the
\* payments of the rows dated in the calendar year of today; rows without
\* a date or of another year contribute nothing, absent amounts count 0.
C12_YearStatistics ==
    pc = "done" =>
        /\ Val(finance).year = CalendarYear(today)
        /\ Val(finance).year_charges =
               ColumnSum(RowsOfYear(CalendarYear(today)), "zaduzenje_value")
        /\ Val(finance).year_payments =
               ColumnSum(RowsOfYear(CalendarYear(today)), "uplata_value")

\* A ledger with a row of this year, a row of another year, a row without
\* a date and a row without a charge has been summed
C12_Witness ==
    /\ pc = "done"
    /\ \E i, j, k \in 1..Len(promet_rows) :
           /\ promet_rows[i].parsed_date = None
           /\ promet_rows[j].parsed_date # None
           /\ CalendarYear(Val(promet_rows[j].parsed_date)) # CalendarYear(today)
           /\ promet_rows[k].parsed_date # None
           /\ CalendarYear(Val(promet_rows[k].parsed_date)) = CalendarYear(today)
           /\ promet_rows[k].zaduzenje_value = None
    /\ Val(finance).year_payments # FloatZero

(***************************************************************************)
(* Properties of the consumption report                                    *)
(***************************************************************************)
\* _compute_consumption has returned
Returned == pc = "computed"

\* The two newest readings both have a value and a date
TwoComplete ==
    /\ Len(readings) >= 2
    /\ \A k \in 1..2 : readings[k].value # None /\ readings[k].date # None

ValueDifference == Val(readings[1].value) - Val(readings[2].value)

DateDifference == Val(readings[1].date) - Val(readings[2].date)

\* C13: the usage of the last period is never negative: with two complete
\* newest readings it is the difference of their values if that is >= 0
\* and absent if it is negative; it is absent when a value or a date of
\* the two is missing.
C13_UsageNeverNegative ==
    Returned =>
        /\ Val(consumption).usage # None => Val(Val(consumption).usage) >= 0
        /\ Val(consumption).usage =
               IF TwoComplete /\ ValueDifference >= 0
               THEN Some(ValueDifference)
               ELSE None

\* The newest reading is lower than the one before it, and the usage has
\* been discarded
C13_Witness ==
    /\ Returned
    /\ TwoComplete
    /\ ValueDifference < 0
    /\ Val(consumption).usage = None

\* C14: with two complete newest readings the days between them are
\* reported, whether the usage of the period was kept or discarded.
C14_DaysBetweenAlways ==
    (Returned /\ TwoComplete) =>
        Val(consumption).days_between_readings = Some(DateDifference)

\* q is the thousandth nearest to usage / days
NearestThousandth(q, usage, days) ==
    /\ 2 * (q * days - Milli * usage) <= days
    /\ 2 * (Milli * usage - q * days) <= days

\* C15 as stated: the average is the quotient usage / days when days > 0,
\* 0 when days = 0, absent when days < 0 or the usage is absent.
C15_AverageIsQuotient ==
    Returned =>
        Val(consumption).avg_daily_usage =
            IF Val(consumption).usage = None THEN None
            ELSE IF Val(Val(consumption).days_between_readings) > 0
            THEN Some(FloatOfRatio(Val(Val(consumption).usage),
                                   Val(Val(consumption).days_between_readings)))
            ELSE IF Val(Val(consumption).days_between_readings) = 0
            THEN Some(FloatZero)
            ELSE None

AverageRounded(avg, usage, days) ==
    IF days > 0
    THEN /\ avg # None
         /\ \E q \in 0..(Milli * usage) :
                /\ NearestThousandth(q, usage, days)
                /\ Val(avg) = FloatOfRatio(q, Milli)
    ELSE IF days = 0 THEN avg = Some(FloatZero)
    ELSE avg = None

\* C15: the average is the quotient usage / days rounded to three
\* decimals when days > 0, 0 when days = 0, absent when days < 0 or the
\* usage is absent.
C15_AverageIsRoundedQuotient ==
    Returned =>
        IF Val(consumption).usage = None
        THEN Val(consumption).avg_daily_usage = None
        ELSE AverageRounded(Val(consumption).avg_daily_usage,
                            Val(Val(consumption).usage),
                            Val(Val(consumption).days_between_readings))

\* An average has been reported for a quotient that is no whole number of
\* thousandths
C15_Witness ==
    /\ Returned
    /\ Val(consumption).usage # None
    /\ Val(Val(consumption).days_between_readings) > 0
    /\ (Milli * Val(Val(consumption).usage))
           % Val(Val(consumption).days_between_readings) # 0
    /\ Val(consumption).avg_daily_usage # None

\* The readings (by position) with a date and a value
Kept(rs) == {i \in 1..Len(rs) : rs[i].date # None /\ rs[i].value # None}

NewestKept(rs) ==
    CHOOSE i \in Kept(rs) : \A j \in Kept(rs) : Val(rs[j].date) <= Val(rs[i].date)

OfNewestYear(rs) ==
    {i \in Kept(rs) :
        CalendarYear(Val(rs[i].date)) = CalendarYear(Val(rs[NewestKept(rs)].date))}

\* i comes before j: by date, and by position when the dates are equal
Before(rs, i, j) ==
    \/ Val(rs[i].date) < Val(rs[j].date)
    \/ Val(rs[i].date) = Val(rs[j].date) /\ i < j

ConsecutivePairs(rs) ==
    {pair \in OfNewestYear(rs) \X OfNewestYear(rs) :
        /\ Before(rs, pair[1], pair[2])
        /\ ~\E k \in OfNewestYear(rs) :
               Before(rs, pair[1], k) /\ Before(rs, k, pair[2])}

Rise(rs, pair) ==
    IF Val(rs[pair[2]].value) > Val(rs[pair[1]].value)
    THEN Val(rs[pair[2]].value) - Val(rs[pair[1]].value)
    ELSE 0

RECURSIVE SumOfRises(_, _)
SumOfRises(rs, pairs) ==
    IF pairs = {} THEN 0
    ELSE Rise(rs, CHOOSE pair \in pairs : TRUE)
           + SumOfRises(rs, pairs \ {CHOOSE pair \in pairs : TRUE})

Orders(n) ==
    {f \in [1..n -> 1..n] : \A i, j \in 1..n : i # j => f[i] # f[j]}

Reordered(rs, f) == [k \in 1..Len(rs) |-> rs[f[k]]]

\* f leaves readings of the same date in the order they had
KeepsSameDay(rs, f) ==
    \A k, l \in 1..Len(rs) :
        (/\ k < l
         /\ f[k] \in Kept(rs)
         /\ f[l] \in Kept(rs)
         /\ rs[f[k]].date = rs[f[l]].date) => f[k] < f[l]

\* C16 as stated: the usage of the year is the sum of the rises between
\* consecutive readings of the newest reading's year, never negative, and
\* the same for every order of the readings.
C16_YearUsageAnyOrder ==
    Returned =>
        /\ Kept(readings) # {} =>
               Val(consumption).year_usage =
                   Some(SumOfRises(readings, ConsecutivePairs(readings)))
        /\ \A f \in Orders(Len(readings)) :
               YearUsage(Reordered(readings, f)).year_usage
                   = Val(consumption).year_usage

\* C16: the usage of the year is absent when fewer than two dated and
\* valued readings fall in the year of the newest one; otherwise it is the
\* sum of the rises between consecutive readings of that year, readings of
\* the same date in the order supplied; it is never negative; and it is
\* the same for every order of the readings that keeps the order of the
\* readings of the same date.
C16_YearUsageSameDayOrder ==
    Returned =>
        /\ Val(consumption).year_usage =
               IF Kept(readings) = {} THEN None
               ELSE IF Cardinality(OfNewestYear(readings)) < 2 THEN None
               ELSE Some(SumOfRises(readings, ConsecutivePairs(readings)))
        /\ Val(consumption).year_usage # None =>
               Val(Val(consumption).year_usage) >= 0
        /\ \A f \in Orders(Len(readings)) :
               KeepsSameDay(readings, f) =>
                   YearUsage(Reordered(readings, f)).year_usage
                       = Val(consumption).year_usage

\* Three readings of the newest year on three days, supplied out of
\* order, with a drop and a rise between them
C16_Witness ==
    /\ Returned
    /\ Cardinality(OfNewestYear(readings)) = 3
    /\ \A i, j \in OfNewestYear(readings) :
           i # j => readings[i].date # readings[j].date
    /\ \E i \in Kept(readings) : i # Len(readings) /\ Before(readings, i, i + 1)
    /\ \E pair \in ConsecutivePairs(readings) :
           Val(readings[pair[2]].value) < Val(readings[pair[1]].value)
    /\ Val(consumption).year_usage # None
    /\ Val(Val(consumption).year_usage) > 0

(***************************************************************************)
(* Properties of the primitive parsers                                     *)
(***************************************************************************)
\* year-month-day is a day of the calendar
RealDate(year, month, day) ==
    /\ year >= 1
    /\ month \in 1..12
    /\ day \in 1..DaysInMonth(year, month)

TheDate(year, month, day) == Result("date", year, month, day, FloatZero)

\* the text is D.M. followed by the digits of a year
WrittenShort(d, m, year_text) == text = Some(d \o <<".">> \o m \o <<".">> \o year_text)

EndsWith(t, tail) ==
    Len(t) >= Len(tail) /\ SubSeq(t, Len(t) - Len(tail) + 1, Len(t)) = tail

ShortYearRead(year_text, year) ==
    \A d \in DayTexts, m \in MonthTexts :
        (WrittenShort(d, m, year_text) /\ RealDate(year, NatOf(m), NatOf(d)))
            => result = TheDate(year, NatOf(m), NatOf(d))

\* C17: for a valid day and month, D.M.YY is read as the date of the year
\* 2000 + YY, for every YY from 00 to 99, and D.M.YYYY as the date of the
\* year YYYY.
C17_TwoDigitYearsAre2000s ==
    (ppc = "short" /\ text # None) =>
        /\ \A yy \in 0..99 :
               EndsWith(Val(text), <<".">> \o TwoDigits(yy))
                   => ShortYearRead(TwoDigits(yy), 2000 + yy)
        /\ \A y \in {1969, 2024, 2025} :
               EndsWith(Val(text), <<".">> \o FourDigits(y))
                   => ShortYearRead(FourDigits(y), y)

WrittenLong(d, name, y, tail) ==
    text = Some(d \o <<".", " ">> \o name \o <<" ">> \o y \o tail)

NoSuchDay(year, month, day) == month = None \/ ~RealDate(year, Val(month), day)

\* C18: the two date parsers return a day of the calendar or nothing and
\* never raise; a day, month and year that are no day of the calendar and
\* a month name that is not in the table give nothing.
C18_DateParsersAllOrNothing ==
    ppc \in {"short", "long"} =>
        /\ result.kind \in {"None", "date"}
        /\ result.kind = "date" =>
               RealDate(result.year, result.month, result.day)
        /\ ppc = "short" =>
               \A d \in DayTexts, m \in MonthTexts, y \in {0, 1969, 2024, 2025} :
                   (/\ WrittenShort(d, m, FourDigits(y))
                    /\ ~RealDate(y, NatOf(m), NatOf(d)))
                       => result = ReturnsNone
        /\ ppc = "long" =>
               \A d \in LongDayTexts, name \in NameTexts,
                  y \in {0, 2024, 2025}, tail \in LongTails :
                   (/\ WrittenLong(d, name, FourDigits(y), tail)
                    /\ NoSuchDay(y, MonthGet(LowerAll(name)), NatOf(d)))
                       => result = ReturnsNone

\* The 31st of a month of 30 days has been given to the long parser, which
\* returned nothing
C18_Witness ==
    /\ ppc = "long"
    /\ WrittenLong(<<"3", "1">>, <<"t", "r", "a", "v", "n", "j", "a">>,
                   FourDigits(2025), <<>>)
    /\ result = ReturnsNone

\* a number in base 10: digits with at most one decimal point, after an
\* optional sign
IsBaseTen(t) == IsMantissa(Unsigned(t))

BaseTenValue(t) ==
    Result("float", 0, 0, 0,
        [neg |-> Negative(t),
         mag |-> FloatOfRatio(NatOf(Without(Unsigned(t), ".")),
                              Pow10(FractionDigits(Unsigned(t)))).mag])

\* C19: an amount is read by dropping the currency marks, the blanks and
\* every thousands point, taking the comma as the decimal point and reading
\* the rest as a number in base 10 (531,14 with the euro sign is 531.14,
\* 1.234,56 is 1234.56); for no text, the empty text and a text that leaves
\* anything but such a number the parser returns nothing, and it never
\* raises.
C19_AmountIsBaseTenOrNothing ==
    ppc = "amount" =>
        /\ result.kind # "ValueError"
        /\ text = Some(<<"5", "3", "1", ",", "1", "4", " ", "euro">>)
               => result.value = ToFloat(531140)
        /\ text = Some(<<"1", ".", "2", "3", "4", ",", "5", "6">>)
               => result.value = ToFloat(1234560)
        /\ result =
               IF text = None THEN ReturnsNone
               ELSE IF IsBaseTen(Cleaned(Val(text)))
               THEN BaseTenValue(Cleaned(Val(text)))
               ELSE ReturnsNone

(***************************************************************************)
(* Properties of the report of empty inputs                                *)
(***************************************************************************)
EmptyInputs ==
    /\ readings = <<>>
    /\ promet_rows = <<>>
    /\ invoices = <<>>
    /\ summary = Summary(None, None, None)

NoConsumption(report) ==
    \A field \in DOMAIN report : report[field] = None

\* C20: with no readings, no ledger rows, no summary totals and no
\* invoices, every field of the consumption report is absent and the
\* finance report has balance 0, totals 0, no latest invoice, no unpaid
\* invoice and yearly charges and payments 0.
C20_EmptyInputsFabricateNothing ==
    (EmptyInputs /\ pc \in {"done", "returned"}) =>
        /\ Val(finance).balance = FloatZero
        /\ Val(finance).previous_debt = 0
        /\ Val(finance).charges_total = 0
        /\ Val(finance).payments_total = 0
        /\ Val(finance).latest_invoice = None
        /\ Val(finance).unpaid_count = 0
        /\ Val(finance).unpaid_total = FloatZero
        /\ Val(finance).unpaid_invoices = <<>>
        /\ Val(finance).year_charges = FloatZero
        /\ Val(finance).year_payments = FloatZero
        /\ pc = "returned" => NoConsumption(Val(consumption))

\* The report of empty inputs has been built to its end
C20_Witness ==
    /\ EmptyInputs
    /\ pc = "returned"
    /\ consumption # None
    /\ finance # None

(***************************************************************************)
(* Properties of a second build                                            *)
(***************************************************************************)
\* C21: a second build from the same arguments and with the same today
\* returns a finance report that equals the first one in every field, the
\* paid marks, the unpaid invoices and the latest invoice included.
C21_SecondBuildEqualsFirst ==
    pc = "rebuilt" =>
        Payload(heap, invoices_sorted, Val(finance)).finance
            = Val(previous).finance

\* Two builds have returned a report with a pseudo-invoice, an invoice
\* paid by a ledger row and an unpaid invoice
C21_Witness ==
    /\ pc = "rebuilt"
    /\ Len(heap) > Len(invoices)
    /\ \E id \in 1..Len(invoices) :
           heap[id].paid /\ heap[id].payment_amount # None
    /\ Val(previous).finance.unpaid_count > 0

(***************************************************************************)
(* Properties of the arguments of a build                                  *)
(***************************************************************************)
\* the objects the caller passed in the list invoices
Passed == 1..Len(invoices)

\* C22: a build leaves every sequence it was given as it was passed in: no
\* record of the readings, the ledger rows, the summary totals or the
\* invoices gains, loses or changes a field, and no sequence is reordered,
\* extended or shortened.
C22_BuildLeavesArguments ==
    [][/\ readings' = readings
       /\ promet_rows' = promet_rows
       /\ summary' = summary
       /\ invoices' = invoices
       /\ \A id \in Passed : heap'[id] = heap[id]]_vars

(***************************************************************************)
(* Properties of the reconciliation step                                   *)
(***************************************************************************)
Marks(inv) == <<inv.paid, inv.payment_date, inv.payment_amount>>

Unmarked(inv) ==
    [inv EXCEPT !.paid = FALSE, !.payment_date = None, !.payment_amount = None]

\* what the reconciliation gives an invoice of this amount and issue date
\* that is alone in the list
Alone(inv) ==
    Marks(EnrichInvoice(Invoice(inv.issue_date, None, inv.amount), promet_rows))

\* C29: matching consumes no ledger row: paid, payment_date and
\* payment_amount of an invoice depend on its amount, its issue date and
\* the ledger rows only, not on the other invoices or their order, so two
\* invoices of equal amount and issue date get the same result, from the
\* same payment row.
C29_MatchingConsumesNoRow ==
    pc = "enriched" =>
        \A i, j \in ReconciledIds :
            /\ Marks(heap[i]) = Alone(heap[i])
            /\ (/\ heap[i].amount = heap[j].amount
                /\ heap[i].issue_date = heap[j].issue_date)
                   => Marks(heap[i]) = Marks(heap[j])

\* Two invoices of the list have been paid by the same ledger row
C29_Witness ==
    /\ pc = "enriched"
    /\ \E i, j \in ReconciledIds :
           /\ i # j
           /\ heap[i].paid /\ heap[j].paid
           /\ heap[i].payment_amount # None
           /\ Marks(heap[i]) = Marks(heap[j])
           /\ Cardinality({k \in 1..Len(promet_rows) :
                               OrZero(promet_rows[k].uplata_value) > 0}) = 1

\* C30: the reconciliation keeps the number and the order of the invoices
\* and of the ledger rows, changes no ledger row and no field of an
\* invoice but paid, payment_date and payment_amount, and sets these
\* three on every invoice of the list whatever they were before.
C30_ReconciliationFrame ==
    [][(pc = "prepended" /\ pc' = "enriched") =>
           /\ invoices_sorted' = invoices_sorted
           /\ invoices' = invoices
           /\ promet_rows' = promet_rows
           /\ Len(heap') = Len(heap)
           /\ \A id \in 1..Len(heap) :
                  /\ Unmarked(heap'[id]) = Unmarked(heap[id])
                  /\ id \in ReconciledIds
                         => heap'[id] = EnrichInvoice(Unmarked(heap[id]),
                                                     promet_rows)
                  /\ id \notin ReconciledIds => heap'[id] = heap[id]]_vars

\* An invoice that came marked as paid has been reconciled and is unpaid
C30_Witness ==
    /\ pc = "enriched"
    /\ \E id \in ReconciledIds :
           /\ heap[id].number = "stari"
           /\ ~heap[id].paid
           /\ heap[id].payment_date = None

\* The build attempts of a request that are over or under way
Attempts(r) ==
    r.failed + (IF r.data # None THEN 1 ELSE 0)
             + (IF r.pc = "collecting" THEN 1 ELSE 0)

\* The request has come back from _fetch_data with a report or a failure
Settled(r) ==
    /\ r.pc = "answered"
    /\ r.answer # None
    /\ Val(r.answer).code \in {200, 500}

RetriesBounded ==
    \A i \in 1..MaxRequests :
        LET r == requests[i]
        IN  /\ r.attempt <= RETRY_ATTEMPTS
            /\ r.attempt = Attempts(r)
            /\ r.data # None => r.pc # "collecting" /\ r.pc # "sleeping"
            /\ r.slept = IF r.failed < RETRY_ATTEMPTS
                         THEN r.failed ELSE RETRY_ATTEMPTS - 1
            /\ r.attempt = IF r.pc = "sleeping" \/ r.attempt = 0
                           THEN r.slept ELSE r.slept + 1

BackoffBetweenAttempts ==
    \A i \in 1..MaxRequests :
        /\ (requests[i].pc # "sleeping" /\ requests'[i].pc = "sleeping")
               => /\ requests[i].pc = "collecting"
                  /\ requests'[i].failed = requests[i].failed + 1
                  /\ requests'[i].wake = clock + RETRY_DELAY_SECONDS
        /\ (requests[i].pc = "sleeping" /\ requests'[i].pc # "sleeping")
               => /\ requests'[i].pc = "collecting"
                  /\ requests'[i].attempt = requests[i].attempt + 1
                  /\ clock' >= requests[i].wake
        /\ requests[i].data # None
               => requests'[i].attempt = requests[i].attempt

\* C23: a refresh makes at most RETRY_ATTEMPTS build attempts, makes none
\* after one that succeeded, sleeps RETRY_DELAY_SECONDS after a failed
\* attempt that is not the last and at no other time, and, every build
\* attempt coming back, ends with a report or with a failure.
C23_BoundedRetries ==
    /\ []RetriesBounded
    /\ [][BackoffBetweenAttempts]_vars
    /\ \A i \in 1..MaxRequests :
           (requests[i].pc # "waiting") ~> Settled(requests[i])

\* A request has been answered with the report of its third attempt,
\* after two failed attempts and two waits
C23_Witness ==
    \E i \in 1..MaxRequests :
        /\ Settled(requests[i])
        /\ requests[i].attempt = RETRY_ATTEMPTS
        /\ requests[i].failed = 2
        /\ requests[i].slept = 2
        /\ requests[i].data # None
        /\ Val(requests[i].answer).cached = Some(FALSE)
        /\ clock >= StartTime + 2 * RETRY_DELAY_SECONDS

\* Every attempt of the request has failed
AllFailed(r) == r.failed = RETRY_ATTEMPTS

\* The answer carries the cached report as a stale one: served from the
\* cache, degraded, with the text of the last error
ServedStale(r) ==
    /\ r.answer # None
    /\ Val(r.answer).code = 200
    /\ Val(r.answer).cached = Some(TRUE)
    /\ Val(r.answer).state = "degraded"
    /\ Val(r.answer).error = r.last_error
    /\ r.route = "data" => Val(r.answer).report # None

StaleAnswers ==
    \A i \in 1..MaxRequests :
        (requests[i].pc = "answered" /\ AllFailed(requests[i])
             /\ Val(requests[i].answer).code = 200)
            => ServedStale(requests[i])

NoErrorWhileCached ==
    \A i \in 1..MaxRequests :
        (requests[i].pc = "exhausted" /\ _cache_data # None
             /\ requests'[i] # requests[i])
            => /\ requests'[i].pc = "fallback"
               /\ UNCHANGED <<_cache_data, _cache_timestamp>>

\* C24: a request whose attempts have all failed while a report is cached
\* is answered with the cached report, marked as served from the cache
\* and as degraded with the text of the last error, and not with an
\* error, forced or not.
C24_StaleReportServed ==
    /\ []StaleAnswers
    /\ [][NoErrorWhileCached]_vars

\* The reports that builds have produced
Reports == {Some(b) : b \in 1..built}

\* An answer carries a report that a build produced, or an error and no
\* report
AnswersGenuine ==
    \A i \in 1..MaxRequests :
        requests[i].answer # None =>
            LET a == Val(requests[i].answer)
            IN  /\ a.code \in {200, 500}
                /\ a.code = 500 => a.report = None /\ a.error # None
                /\ (a.code = 200 /\ requests[i].route = "data")
                       => a.report \in Reports

FailurePropagated ==
    \A i \in 1..MaxRequests :
        (requests[i].pc = "exhausted" /\ _cache_data = None
             /\ requests'[i] # requests[i])
            => /\ AllFailed(requests[i])
               /\ requests'[i].pc = "answered"
               /\ Val(requests'[i].answer).code = 500
               /\ Val(requests'[i].answer).report = None
               /\ Val(requests'[i].answer).error # None
               /\ _cache_data' = None
               /\ _cache_timestamp' = _cache_timestamp

\* C25: a request whose attempts have all failed while no report is
\* cached is answered with an error of status 500 that carries no report,
\* and leaves the cache empty; no answer carries a report that no build
\* produced.
C25_FailureWithoutCache ==
    /\ []AnswersGenuine
    /\ [][FailurePropagated]_vars

\* GET /data has been answered with the error after three failed attempts
\* and the cache is empty
C25_Witness ==
    \E i \in 1..MaxRequests :
        /\ requests[i].pc = "answered"
        /\ requests[i].route = "data"
        /\ AllFailed(requests[i])
        /\ Val(requests[i].answer).code = 500
        /\ _cache_data = None
        /\ built = 0

\* The requests that are inside collect_pis_data
InFlight == {i \in 1..MaxRequests : requests[i].pc = "collecting"}

\* C26: at most one call of collect_pis_data is under way at any time,
\* however the requests arrive.
C26_OneBuildInFlight == Cardinality(InFlight) <= 1

\* The cache entry is the report of one build with the time that build
\* stamped, but for the moment between the two assignments of that build
EntryOfOneBuild ==
    _cache_data # None =>
        \E j \in 1..MaxRequests :
            /\ requests[j].data = _cache_data
            /\ \/ requests[j].pc \in {"stored", "timed"}
               \/ requests[j].stamp = Some(_cache_timestamp)

\* What has been served from the cache is the report of one build with
\* the time that build stamped
ServedOfOneBuild ==
    \A i \in 1..MaxRequests :
        (/\ requests[i].answer # None
         /\ Val(requests[i].answer).cached = Some(TRUE)
         /\ requests[i].route = "data")
            => \E j \in 1..MaxRequests :
                   /\ requests[j].data = Val(requests[i].answer).report
                   /\ requests[j].stamp = Val(requests[i].answer).cached_at

\* The cached report is that of the last build that succeeded, once that
\* build has stored it
EntryMostRecent ==
    (built > 0 /\ \A i \in 1..MaxRequests : requests[i].pc # "collected")
        => _cache_data = Some(built)

\* The entry changes only in a step of a request whose build succeeded,
\* and its timestamp does not go back
EntryChangesOnSuccess ==
    /\ (_cache_data' # _cache_data \/ _cache_timestamp' # _cache_timestamp)
           => \E i \in 1..MaxRequests :
                  /\ requests[i].data # None
                  /\ requests[i].failed < RETRY_ATTEMPTS
                  /\ requests'[i] # requests[i]
    /\ _cache_timestamp' >= _cache_timestamp

\* C27: the cache entry changes only when a build succeeds, report and
\* timestamp are replaced together, the timestamp never decreases, and
\* the cached report is that of the most recent build that succeeded.
C27_CacheEntryFrame ==
    /\ [](EntryOfOneBuild /\ ServedOfOneBuild /\ EntryMostRecent)
    /\ [][EntryChangesOnSuccess]_vars

\* The age of the cached report as the arriving request finds it
Age == clock - _cache_timestamp

\* What the arrival of a request decides: without refresh=true and with a
\* report younger than the TTL it goes to the cache and makes no attempt,
\* otherwise it starts its first attempt
ArrivalDecides ==
    \A i \in 1..MaxRequests :
        (requests[i].pc = "waiting" /\ requests'[i].pc # "waiting")
            => IF /\ ~requests'[i].force_refresh
                  /\ _cache_data # None
                  /\ Age < CACHE_TTL_SECONDS
               THEN /\ requests'[i].pc = "hit"
                    /\ requests'[i].attempt = 0
               ELSE /\ requests'[i].pc = "collecting"
                    /\ requests'[i].attempt = 1

\* No request takes back an attempt, and one that went to the cache makes
\* none
AttemptsKept ==
    \A i \in 1..MaxRequests :
        /\ requests'[i].attempt >= requests[i].attempt
        /\ requests[i].pc = "hit"
               => /\ requests'[i].attempt = 0
                  /\ requests'[i].pc \in {"hit", "answered"}
                  /\ built' = built \/ requests'[i] = requests[i]

\* A request that made no attempt has its answer from the cache, and one
\* that was not sent to the cache has made an attempt
AnsweredAsDecided ==
    \A i \in 1..MaxRequests :
        LET r == requests[i]
        IN  /\ (r.pc = "answered" /\ r.attempt = 0)
                   => /\ Val(r.answer).code = 200
                      /\ Val(r.answer).cached = Some(TRUE)
                      /\ Val(r.answer).error = None
                      /\ r.failed = 0 /\ r.data = None
            /\ r.pc \notin {"waiting", "hit"} /\ r.force_refresh
                   => r.attempt >= 1
            /\ r.pc = "hit" => ~r.force_refresh /\ r.attempt = 0

\* C28: a request without refresh=true that finds a cached report younger
\* than the TTL is answered from the cache without a build attempt; a
\* request with refresh=true, or one that finds the cache empty or the
\* report at least the TTL old, makes a build attempt before it is
\* answered.
C28_CacheHitOrBuild ==
    /\ []AnsweredAsDecided
    /\ [][ArrivalDecides /\ AttemptsKept]_vars

\* GET /data has been answered from the cache, without an attempt, with
\* the report that the other request built
C28_Witness ==
    /\ built = 1
    /\ \E i, j \in 1..MaxRequests :
           /\ requests[i].pc = "answered"
           /\ requests[i].route = "data"
           /\ requests[i].attempt = 0
           /\ Val(requests[i].answer).cached = Some(TRUE)
           /\ Val(requests[i].answer).report = requests[j].data
           /\ requests[j].pc = "answered"
           /\ requests[j].stamp = Some(_cache_timestamp)

=============================================================================
